---- MODULE Spec2Model ----
(***************************************************************************)
(* The Jarvis triage job of Centro de Mando (scripts/jarvis triage cron)   *)
(* and the server actions of the board that write to the same store.       *)
(*                                                                         *)
(* Text is a sequence of one-character strings, so that trimming, lower    *)
(* casing, substring search and the filler-word pattern are computed as    *)
(* the JavaScript computes them.  A work item's id is its position in the   *)
(* tasks relation, which is also its creation order.                       *)
(***************************************************************************)
EXTENDS Integers, Sequences, FiniteSets, TLC

VARIABLES
    tasks,        \* relation tasks: Seq of [owner_id, title, description, status]
    subtasks,     \* relation subtasks: Seq of rows, in insertion order
    comments,     \* relation comments: Seq of rows, in insertion order
    activity,     \* relation activity_log: Seq of rows, in insertion order
    agents,       \* relation agents: set of [id, name, owner_id, is_active]
    pc,           \* pc[r]: where run r of the triage script stands
    roster,       \* roster[r]: the Map built by getAgentRoster
    batch,        \* batch[r]: the rows the run fetched (`tasks` in main)
    idx,          \* idx[r]: position of the for-loop in batch[r]
    alreadyHas,   \* alreadyHas[r], createdCount[r], newStatus[r]: loop locals
    createdCount,
    newStatus,
    processed,    \* processed[r]: the summary rows pushed so far
    exitCode,     \* exitCode[r]: process.exitCode of the run
    stdout,       \* stdout[r]: the lines printed by console.log
    stderr,       \* stderr[r]: the lines printed by console.error
    calls,        \* history: calls[r], the store calls run r issued, in order
    uiOps,        \* history: number of moveTask / createSubtask actions done
    failures,     \* history: number of store calls that failed
    atStart,      \* history: atStart[r], the items with a subtask when run r started
    atEnd,        \* history: atEnd[r][t], the subtasks of item t when run r ended
    env,          \* env[r]: process.env of run r
    broken        \* the store call that returns an error whenever it is issued

vars == <<tasks, subtasks, comments, activity, agents, pc, roster, batch, idx,
          alreadyHas, createdCount, newStatus, processed, exitCode, stdout,
          stderr, calls, uiOps, failures, atStart, atEnd, env, broken>>

store == <<tasks, subtasks, comments, activity, agents>>

-----------------------------------------------------------------------------
(* Bounds of the model.                                                    *)

MaxTasks == 2

MaxRuns == 2

MaxUiOps == 1

MaxFailures == 1

\* The longest backlog a run starts with: beyond the batch size of the fetch.
MaxBacklog == 22

-----------------------------------------------------------------------------
(* Program constants.                                                      *)

BatchLimit == 20

MinTitleLen == 8

ResumenMax == 240

PlanCap == 7

\* JavaScript null: of a text column, and of an identity column.
Null == <<"null">>

NullId == "null"

OWNER_ID == "nico"

Users == {OWNER_ID, "otro"}

STATUSES == <<"inbox", "triage", "in_progress", "blocked", "review",
              "needs_nico", "done", "canceled">>

StatusSet == {STATUSES[i] : i \in 1..Len(STATUSES)}

-----------------------------------------------------------------------------
(* Characters and strings.                                                 *)

UpperCase == <<"A","B","C","D","E","F","G","H","I","J","K","L","M",
               "N","O","P","Q","R","S","T","U","V","W","X","Y","Z",
               "Á","É","Í","Ó","Ú","Ñ">>

LowerCase == <<"a","b","c","d","e","f","g","h","i","j","k","l","m",
               "n","o","p","q","r","s","t","u","v","w","x","y","z",
               "á","é","í","ó","ú","ñ">>

Digits == {"0","1","2","3","4","5","6","7","8","9"}

\* \W of a JavaScript regular expression without the u flag: anything but
\* [A-Za-z0-9_]; the accented letters are non-word characters.
IsWordChar(c) ==
    \/ \E i \in 1..26 : c = UpperCase[i] \/ c = LowerCase[i]
    \/ c \in Digits
    \/ c = "_"

\* The white space String.prototype.trim removes.
IsSpace(c) == c \in {" ", "\t", "\n", "\r"}

lowerChar(c) ==
    IF \E i \in 1..Len(UpperCase) : UpperCase[i] = c
    THEN LowerCase[CHOOSE i \in 1..Len(UpperCase) : UpperCase[i] = c]
    ELSE c

\* Here and below, a value used more than once is bound as the element of a
\* one-element set, so that it is computed once.
toLowerCase(s) ==
    CHOOSE l \in {[i \in 1..Len(v) |-> lowerChar(v[i])] : v \in {s}} : TRUE

RECURSIVE trimStart(_)
trimStart(s) ==
    IF s # <<>> /\ IsSpace(Head(s)) THEN trimStart(Tail(s)) ELSE s

RECURSIVE trimEnd(_)
trimEnd(s) ==
    IF s # <<>> /\ IsSpace(s[Len(s)])
    THEN trimEnd(SubSeq(s, 1, Len(s) - 1))
    ELSE s

trim(s) == trimEnd(trimStart(s))

\* String.prototype.includes
includes(t, w) ==
    \E i \in 0..(Len(t) - Len(w)) : SubSeq(t, i + 1, i + Len(w)) = w

\* String.prototype.slice(0, n)
slice0(s, n) == SubSeq(s, 1, IF Len(s) < n THEN Len(s) ELSE n)

\* (s || '').toString().trim()
normalizeText(s) == trim(IF s = Null THEN <<>> ELSE s)

-----------------------------------------------------------------------------
(* Classifier: inferAgentBucket and needsNico.                             *)

BucketSkool == <<"S","k","o","o","l">>

BucketOps == <<"O","p","s">>

BucketDev == <<"D","e","v">>

BucketResearch == <<"R","e","s","e","a","r","c","h">>

BucketJarvis == <<"J","a","r","v","i","s">>

SkoolWords ==
    { <<"s","k","o","o","l">>, <<"c","o","m","u","n","i","d","a","d">>,
      <<"c","u","r","s","o">>, <<"m","i","e","m","b","r","o","s">>,
      <<"p","o","s","t">>, <<"c","o","n","t","e","n","i","d","o">> }

OpsWords ==
    { <<"d","e","p","l","o","y">>, <<"i","n","f","r","a">>,
      <<"s","e","r","v","i","d","o","r">>, <<"g","a","t","e","w","a","y">>,
      <<"c","r","o","n">>, <<"s","s","h">>, <<"d","n","s">>,
      <<"d","o","c","k","e","r">>, <<"u","p","t","i","m","e">>,
      <<"m","o","n","i","t","o","r">> }

DevWords ==
    { <<"b","u","g">>, <<"e","r","r","o","r">>, <<"f","i","x">>,
      <<"a","p","i">>, <<"n","e","x","t">>,
      <<"f","r","o","n","t","e","n","d">>, <<"b","a","c","k","e","n","d">>,
      <<"s","u","p","a","b","a","s","e">>, <<"s","q","l">>,
      <<"t","y","p","e","s","c","r","i","p","t">>,
      <<"c","o","d","i","g","o">>, <<"c","ó","d","i","g","o">> }

ResearchWords ==
    { <<"i","n","v","e","s","t","i","g","a","r">>,
      <<"r","e","s","e","a","r","c","h">>,
      <<"b","e","n","c","h","m","a","r","k">>,
      <<"c","o","m","p","a","r","a","r">>,
      <<"a","l","t","e","r","n","a","t","i","v","a">>,
      <<"d","o","c","u","m","e","n","t","a","c","i","ó","n">>,
      <<"d","o","c","s">> }

\* has(...words) over the text t
has(t, words) == \E w \in words : includes(t, w)

inferAgentBucketDefault(title, description) == BucketJarvis

inferAgentBucketDevFirst(title, description) ==
    LET t == toLowerCase(normalizeText(title) \o <<"\n">> \o
                         normalizeText(description))
    IN  IF has(t, SkoolWords) THEN BucketSkool
        ELSE IF has(t, DevWords) THEN BucketDev
        ELSE IF has(t, OpsWords) THEN BucketOps
        ELSE IF has(t, ResearchWords) THEN BucketResearch
        ELSE BucketJarvis

\* Ordered rules, the first with a keyword in the text wins.
inferAgentBucket(title, description) ==
    LET rules(t) ==
            IF has(t, SkoolWords) THEN BucketSkool
            ELSE IF has(t, OpsWords) THEN BucketOps
            ELSE IF has(t, DevWords) THEN BucketDev
            ELSE IF has(t, ResearchWords) THEN BucketResearch
            ELSE BucketJarvis
    IN  CHOOSE b \in {rules(t) : t \in {toLowerCase(normalizeText(title) \o <<"\n">> \o
                                                    normalizeText(description))}} : TRUE

FillerWords ==
    { <<"i","d","e","a">>, <<"a","y","u","d","a">>,
      <<"p","e","n","d","i","e","n","t","e">>, <<"h","a","c","e","r">>,
      <<"t","b","d">>, <<"t","o","d","o">> }

RECURSIVE dropNonWordStart(_)
dropNonWordStart(s) ==
    IF s # <<>> /\ ~IsWordChar(Head(s)) THEN dropNonWordStart(Tail(s)) ELSE s

RECURSIVE dropNonWordEnd(_)
dropNonWordEnd(s) ==
    IF s # <<>> /\ ~IsWordChar(s[Len(s)])
    THEN dropNonWordEnd(SubSeq(s, 1, Len(s) - 1))
    ELSE s

\* /^\W*(idea|ayuda|pendiente|hacer|tbd|todo)\W*$/i .test(title): the words
\* begin and end with word characters, so the match is decided by what is
\* left of the title once the non-word characters at both ends are dropped.
matchesFiller(title) ==
    toLowerCase(dropNonWordEnd(dropNonWordStart(title))) \in FillerWords

needsNicoEither(task) ==
    LET title == normalizeText(task.title)
        desc == normalizeText(task.description)
    IN  \/ Len(title) < MinTitleLen \/ matchesFiller(title)
        \/ Len(desc) = 0

needsNico(task) ==
    \E title \in {normalizeText(task.title)},
       desc \in {normalizeText(task.description)} :
        LET tooVague == Len(title) < MinTitleLen \/ matchesFiller(title)
            noDesc == Len(desc) = 0
        IN  tooVague /\ noDesc

-----------------------------------------------------------------------------
(* Plan Builder: buildSubtasks.                                            *)

\* The typographic quotes around hecho are written as plain quotes.
StepClarify ==
    [ title |-> "Aclarar alcance y criterios",
      definition_of_done |-> "Queda escrito en la tarea: objetivo, entradas necesarias, restricciones, y criterio de éxito verificable (qué se considera \"hecho\").",
      bucket |-> BucketJarvis ]

StepResearch ==
    [ title |-> "Investigación rápida (3 fuentes)",
      definition_of_done |-> "Entrega un resumen de 10-15 líneas + 3 links relevantes + recomendación clara (qué hacer / qué no hacer) con pros y contras.",
      bucket |-> BucketResearch ]

StepSkool ==
    [ title |-> "Diseñar pieza / acción para Skool",
      definition_of_done |-> "Queda un borrador listo para publicar (texto final) + checklist de publicación (dónde, cuándo, CTA).",
      bucket |-> BucketSkool ]

StepDev ==
    [ title |-> "Implementación técnica",
      definition_of_done |-> "PR/commit listo o cambios aplicados: incluye qué se cambió, cómo probarlo y evidencia (captura/log) de que pasa.",
      bucket |-> BucketDev ]

StepOps ==
    [ title |-> "Ejecución/operación",
      definition_of_done |-> "Cambio aplicado en entorno correspondiente + verificación (comando/screenshot/log) + rollback plan documentado.",
      bucket |-> BucketOps ]

StepValidate ==
    [ title |-> "Validación final",
      definition_of_done |-> "Checklist de verificación completado y nota final en la tarea confirmando que el objetivo se cumplió.",
      bucket |-> BucketJarvis ]

buildSubtasksNoValidation(task) ==
    LET bucket == inferAgentBucket(task.title, task.description)
    IN  <<StepClarify>>
        \o (IF bucket = BucketResearch THEN <<StepResearch>> ELSE <<>>)
        \o (IF bucket = BucketSkool THEN <<StepSkool>> ELSE <<>>)
        \o (IF bucket = BucketDev THEN <<StepDev>> ELSE <<>>)
        \o (IF bucket = BucketOps THEN <<StepOps>> ELSE <<>>)

buildSubtasks(task) ==
    LET steps(bucket) ==
            LET s1 == <<StepClarify>>
                s2 == IF bucket = BucketResearch THEN Append(s1, StepResearch) ELSE s1
                s3 == IF bucket = BucketSkool THEN Append(s2, StepSkool) ELSE s2
                s4 == IF bucket = BucketDev THEN Append(s3, StepDev) ELSE s3
                s5 == IF bucket = BucketOps THEN Append(s4, StepOps) ELSE s4
                s6 == Append(s5, StepValidate)
            IN  slice0(s6, PlanCap)
    IN  CHOOSE p \in {steps(b) : b \in {inferAgentBucket(task.title, task.description)}} : TRUE

-----------------------------------------------------------------------------
(* Inputs of the model: what the forms of the board submit, and the agent  *)
(* directories the store may hold.                                         *)

Runs == 1..MaxRuns

FormFix ==
    [ title |-> <<"F","i","x"," ","b","u","g"," ","i","n"," ","A","P","I">>,
      description |-> <<>> ]

FormAyuda ==
    [ title |-> <<" ","a","y","u","d","a">>, description |-> <<>> ]

FormLlamar ==
    [ title |-> <<"L","l","a","m","a","r"," ","a"," ","P","e","d","r","o">>,
      description |-> <<>> ]

Forms == {FormFix, FormAyuda, FormLlamar}

SubtaskForm ==
    [ title |-> <<"P","a","s","o"," ","m","a","n","u","a","l">>,
      definition_of_done |-> <<" ","R","e","v","i","s","a","d","o"," ","p","o","r"," ","N","i","c","o"," ">>,
      assignee_agent_id |-> "" ]

\* Forms the board may submit with a field left blank.
SubtaskFormBlankDone ==
    [ title |-> <<"P","a","s","o"," ","m","a","n","u","a","l">>,
      definition_of_done |-> <<" "," ">>, assignee_agent_id |-> "" ]

SubtaskFormNoTitle ==
    [ title |-> <<>>,
      definition_of_done |-> <<"R","e","v","i","s","a","d","o">>,
      assignee_agent_id |-> "ag-dev" ]

SubtaskForms == {SubtaskForm, SubtaskFormBlankDone, SubtaskFormNoTitle}

AgentJarvis ==
    [ id |-> "ag-jarvis", name |-> <<"J","a","r","v","i","s">>,
      owner_id |-> OWNER_ID, is_active |-> TRUE ]

AgentDev ==
    [ id |-> "ag-dev", name |-> <<"D","E","V">>,
      owner_id |-> OWNER_ID, is_active |-> TRUE ]

AgentOps ==
    [ id |-> "ag-ops", name |-> <<"O","p","s">>,
      owner_id |-> OWNER_ID, is_active |-> FALSE ]

AgentOtro ==
    [ id |-> "ag-otro", name |-> <<"J","a","r","v","i","s">>,
      owner_id |-> "otro", is_active |-> TRUE ]

AgentTable == {AgentJarvis, AgentDev, AgentOps, AgentOtro}

\* What the model has the board submit: the owner's items with every form,
\* one item of another user, and the owner's moves to these columns.
TaskInputs == {<<OWNER_ID, f>> : f \in Forms} \cup {<<"otro", FormFix>>}

MoveTargets == {"inbox", "triage", "done"}

-----------------------------------------------------------------------------
(* Roster Resolver: getAgentRoster, jarvisId and pickId.                   *)

\* The rows getAgentRoster selects.
activeAgents(ownerId) ==
    {a \in agents : a.owner_id = ownerId /\ a.is_active}

\* The Maps the loop `map.set(name.toLowerCase(), a)` can build from the
\* rows: with two rows of one key the later row wins, and the store fixes
\* no order.
rosterMaps(data) ==
    LET keys == {toLowerCase(a.name) : a \in data}
    IN  {m \in [keys -> data] : \A k \in keys : toLowerCase(m[k].name) = k}

\* roster.get('jarvis')?.id || null
jarvisIdOf(m) ==
    LET key == <<"j","a","r","v","i","s">>
    IN  IF key \in DOMAIN m /\ m[key].id # "" THEN m[key].id ELSE NullId

pickIdNoDefault(m, jarvisId, bucket) ==
    LET key == toLowerCase(bucket)
    IN  IF key \in DOMAIN m /\ m[key].id # "" THEN m[key].id ELSE NullId

\* a?.id || jarvisId || null
pickId(m, jarvisId, bucket) ==
    LET key == toLowerCase(IF bucket = Null THEN <<>> ELSE bucket)
    IN  IF key \in DOMAIN m /\ m[key].id # "" THEN m[key].id
        ELSE IF jarvisId # NullId /\ jarvisId # "" THEN jarvisId
        ELSE NullId

-----------------------------------------------------------------------------
(* Store queries and rows of the triage job.                               *)

RECURSIVE inboxFromAnyStatus(_, _)
inboxFromAnyStatus(ownerId, i) ==
    IF i > Len(tasks) THEN <<>>
    ELSE IF tasks[i].owner_id = ownerId
         THEN <<i>> \o inboxFromAnyStatus(ownerId, i + 1)
         ELSE inboxFromAnyStatus(ownerId, i + 1)

\* .eq('owner_id', ownerId).eq('status', 'inbox').order('created_at') from
\* row i on: the ids in creation order.
RECURSIVE inboxFrom(_, _)
inboxFrom(ownerId, i) ==
    IF i > Len(tasks) THEN <<>>
    ELSE IF tasks[i].owner_id = ownerId /\ tasks[i].status = "inbox"
         THEN <<i>> \o inboxFrom(ownerId, i + 1)
         ELSE inboxFrom(ownerId, i + 1)

selectInboxUnlimited(ownerId) ==
    LET ids == inboxFrom(ownerId, 1)
    IN  [k \in 1..Len(ids) |->
            [ id |-> ids[k], title |-> tasks[ids[k]].title,
              description |-> tasks[ids[k]].description,
              status |-> tasks[ids[k]].status, created_at |-> ids[k],
              owner_id |-> tasks[ids[k]].owner_id ]]

\* The rows the select of main returns: at most BatchLimit, oldest first.
selectInbox(ownerId) ==
    LET rows(ids) ==
            [k \in 1..Len(ids) |->
                [ id |-> ids[k], title |-> tasks[ids[k]].title,
                  description |-> tasks[ids[k]].description,
                  status |-> tasks[ids[k]].status, created_at |-> ids[k],
                  owner_id |-> tasks[ids[k]].owner_id ]]
    IN  CHOOSE data \in {rows(ids) : ids \in {slice0(inboxFrom(ownerId, 1), BatchLimit)}} : TRUE

existingSubsNone(ownerId, taskId) == {}

\* from('subtasks').select('id').eq(owner_id).eq(task_id).limit(1)
existingSubs(ownerId, taskId) ==
    LET hits == {k \in 1..Len(subtasks) :
                    subtasks[k].owner_id = ownerId /\ subtasks[k].task_id = taskId}
    IN  IF hits = {} THEN {} ELSE {CHOOSE k \in hits : \A j \in hits : k <= j}

subtaskRowsFromOne(task, m) ==
    LET plan == buildSubtasks(task)
    IN  [k \in 1..Len(plan) |->
            [ owner_id |-> OWNER_ID, task_id |-> task.id,
              title |-> plan[k].title, status |-> "in_progress",
              assignee_agent_id |-> pickId(m, jarvisIdOf(m), plan[k].bucket),
              definition_of_done |-> plan[k].definition_of_done,
              sort_order |-> k,
              metadata |-> [triage_bucket |-> plan[k].bucket] ]]

\* plan.map((p, idx) => ({...}))
subtaskRows(task, m) ==
    LET map(plan) ==
            [k \in 1..Len(plan) |->
                [ owner_id |-> OWNER_ID, task_id |-> task.id,
                  title |-> plan[k].title, status |-> "in_progress",
                  assignee_agent_id |-> pickId(m, jarvisIdOf(m), plan[k].bucket),
                  definition_of_done |-> plan[k].definition_of_done,
                  sort_order |-> k - 1,
                  metadata |-> [triage_bucket |-> plan[k].bucket] ]]
    IN  CHOOSE rows \in {map(plan) : plan \in {buildSubtasks(task)}} : TRUE

ResumenMissing == <<"Sin descripción (se requiere aclarar).">>

PasoFaltaInfo ==
    "Falta info crítica: describe objetivo + entregable esperado + contexto (links/ejemplos)."

RiesgoBloqueo == "- Bloqueo por falta de contexto."

\* The comment body: its lines, which the code joins with a line feed. A
\* line is a sequence of its fixed pieces and of the characters it quotes.
commentBody(task, needs) ==
    LET lines(desc, vague) ==
            LET resumen == IF desc # <<>> THEN slice0(desc, ResumenMax)
                           ELSE ResumenMissing
                pasos == IF vague
                         THEN <<PasoFaltaInfo>>
                         ELSE << "Revisar subtasks y ejecutar en orden.",
                                 "Actualizar resultados en cada subtask.",
                                 "Cerrar con validación final." >>
            IN  << <<"Resumen: ">> \o resumen, <<>>, <<"Pasos:">> >>
                \o [k \in 1..Len(pasos) |-> <<"- ", pasos[k]>>]
                \o << <<>>, <<"Links:">>, <<"- (vacío)">>, <<>>, <<"Riesgos:">>,
                      <<IF vague THEN RiesgoBloqueo
                        ELSE "- Estimación puede cambiar al descubrir dependencias.">> >>
    IN  CHOOSE body \in {lines(d, v) : d \in {normalizeText(task.description)},
                                       v \in {needs}} : TRUE

commentRow(task, needs, m) ==
    [ owner_id |-> OWNER_ID, task_id |-> task.id, author_type |-> "agent",
      author_agent_id |-> jarvisIdOf(m), body |-> commentBody(task, needs) ]

\* The row insertActivity inserts.
activityRow(m, action, taskId, data) ==
    [ owner_id |-> OWNER_ID, actor_type |-> "agent",
      actor_agent_id |-> jarvisIdOf(m), action |-> action,
      entity_type |-> "task", entity_id |-> taskId, data |-> data ]

conditionalUpdateNone(ownerId, taskId, status) == tasks

conditionalUpdateAnyStatus(ownerId, taskId, status) ==
    [k \in 1..Len(tasks) |->
        IF k = taskId /\ tasks[k].owner_id = ownerId
        THEN [tasks[k] EXCEPT !.status = status]
        ELSE tasks[k]]

\* update({status}).eq(owner_id).eq(id).eq('status', 'inbox'): the relation
\* after the update.
conditionalUpdate(ownerId, taskId, status) ==
    [k \in 1..Len(tasks) |->
        IF k = taskId /\ tasks[k].owner_id = ownerId /\ tasks[k].status = "inbox"
        THEN [tasks[k] EXCEPT !.status = status]
        ELSE tasks[k]]

rowsMatchedAnyStatus(ownerId, taskId) ==
    Cardinality({k \in 1..Len(tasks) :
        k = taskId /\ tasks[k].owner_id = ownerId})

\* The number of rows that update matches.
rowsMatched(ownerId, taskId) ==
    Cardinality({k \in 1..Len(tasks) :
        k = taskId /\ tasks[k].owner_id = ownerId /\ tasks[k].status = "inbox"})

-----------------------------------------------------------------------------
(* History of the store calls, kept to state the properties.               *)

\* One store call of run r: the relation and verb, the item it is about (0:
\* none), whether the store answered without error, the number of rows of
\* the answer, the value written (a status, an action), and whether the item
\* had a subtask of any kind when the call was made.
Call(r, op, taskId, ok, n, arg) ==
    [ run |-> r, op |-> op, task |-> taskId, ok |-> ok, n |-> n, arg |-> arg,
      had |-> taskId \in {subtasks[k].task_id : k \in 1..Len(subtasks)} ]

\* A row the triage job inserted carries metadata; a row of the board's
\* createSubtask does not.
IsAuto(row) == "metadata" \in DOMAIN row

AutoCount(t) ==
    Cardinality({k \in 1..Len(subtasks) :
        subtasks[k].task_id = t /\ IsAuto(subtasks[k])})

ManualCount(t) ==
    Cardinality({k \in 1..Len(subtasks) :
        subtasks[k].task_id = t /\ ~IsAuto(subtasks[k])})

SubCounts == [t \in 1..MaxTasks |-> AutoCount(t) + ManualCount(t)]

WithSubtasks == {subtasks[k].task_id : k \in 1..Len(subtasks)}

CanFail == failures < MaxFailures

\* No store call is bound to fail.
NoBreak == [op |-> "none", task |-> 0]

Outcomes == IF CanFail THEN {TRUE, FALSE} ELSE {TRUE}

\* `if (error) throw` after a store call of the loop body: the outcomes of
\* the call run r is about to issue for its item.
OutcomesAt(r) ==
    IF broken.op = pc[r] /\ broken.task = batch[r][idx[r]].id
    THEN {FALSE}
    ELSE Outcomes

\* process.env
EnvNames == {"SUPABASE_URL", "NEXT_PUBLIC_SUPABASE_URL",
             "SUPABASE_SERVICE_ROLE_KEY", "CENTRO_OWNER_ID"}

FullEnv ==
    [ SUPABASE_URL |-> "https://db", NEXT_PUBLIC_SUPABASE_URL |-> "",
      SUPABASE_SERVICE_ROLE_KEY |-> "service-key", CENTRO_OWNER_ID |-> OWNER_ID ]

Thrown == [thrown |-> TRUE, value |-> "Missing env"]

Returned(v) == [thrown |-> FALSE, value |-> v]

mustEnvLenient(e, names) ==
    LET set == SelectSeq(names, LAMBDA n : e[n] # "")
    IN  IF set = <<>> THEN Returned("") ELSE Returned(e[set[1]])

\* mustEnv: the first of the names whose value is truthy, or a throw.
mustEnv(e, names) ==
    LET set == SelectSeq(names, LAMBDA n : e[n] # "")
    IN  IF set = <<>> THEN Thrown ELSE Returned(e[set[1]])

\* The three constants the module computes before createClient.
moduleConstants(e) ==
    << mustEnv(e, <<"SUPABASE_URL", "NEXT_PUBLIC_SUPABASE_URL">>),
       mustEnv(e, <<"SUPABASE_SERVICE_ROLE_KEY">>),
       mustEnv(e, <<"CENTRO_OWNER_ID">>) >>

\* The module loads: none of the three mustEnv calls throws.
loads(e) == \A k \in 1..3 : ~moduleConstants(e)[k].thrown


-----------------------------------------------------------------------------
(* The triage job: main, one action per store call.                        *)

Init ==
    /\ tasks = <<>>
    /\ subtasks = <<>>
    /\ comments = <<>>
    /\ activity = <<>>
    /\ agents = AgentTable
    /\ pc = [r \in Runs |-> "idle"]
    /\ roster = [r \in Runs |-> <<>>]
    /\ batch = [r \in Runs |-> <<>>]
    /\ idx = [r \in Runs |-> 0]
    /\ alreadyHas = [r \in Runs |-> FALSE]
    /\ createdCount = [r \in Runs |-> 0]
    /\ newStatus = [r \in Runs |-> "triage"]
    /\ processed = [r \in Runs |-> <<>>]
    /\ exitCode = [r \in Runs |-> 0]
    /\ stdout = [r \in Runs |-> <<>>]
    /\ stderr = [r \in Runs |-> <<>>]
    /\ calls = [r \in Runs |-> <<>>]
    /\ uiOps = 0
    /\ failures = 0
    /\ env = [r \in Runs |-> FullEnv]
    /\ broken = NoBreak
    /\ atStart = [r \in Runs |-> {}]
    /\ atEnd = [r \in Runs |-> [t \in 1..MaxTasks |-> 0]]

Ended(r) == pc[r] \in {"done", "aborted", "crashed"}

Active(r) == pc[r] \notin {"idle", "done", "aborted", "crashed"}

\* The item of the loop body.
task(r) == batch[r][idx[r]]

catchHandlerRollback(r, c) ==
    LET Keep(row) == ~(idx[r] \in 1..Len(batch[r])
                       /\ row.task_id = batch[r][idx[r]].id
                       /\ "metadata" \in DOMAIN row)
    IN  /\ pc' = [pc EXCEPT ![r] = "aborted"]
        /\ exitCode' = [exitCode EXCEPT ![r] = 1]
        /\ stderr' = [stderr EXCEPT ![r] = Append(@, "ERROR triage:")]
        /\ calls' = [calls EXCEPT ![r] = Append(@, c)]
        /\ UNCHANGED <<env, broken>>
        /\ failures' = failures + 1
        /\ subtasks' = SelectSeq(subtasks, Keep)
        /\ atEnd' = [atEnd EXCEPT ![r] = SubCounts]
        /\ UNCHANGED <<tasks, comments, activity, agents, roster, batch, idx,
                       alreadyHas, createdCount, newStatus, processed, stdout,
                       uiOps, atStart>>

catchHandlerSkipItem(r, c) ==
    LET rest == {k \in (idx[r] + 1)..Len(batch[r]) : batch[r][k].status = "inbox"}
        j == IF rest = {} THEN Len(batch[r]) + 1
             ELSE CHOOSE k \in rest : \A m \in rest : k <= m
    IN  /\ exitCode' = [exitCode EXCEPT ![r] = 1]
        /\ stderr' = [stderr EXCEPT ![r] = Append(@, "ERROR triage:")]
        /\ calls' = [calls EXCEPT ![r] = Append(@, c)]
        /\ UNCHANGED <<env, broken>>
        /\ failures' = failures + 1
        /\ idx' = [idx EXCEPT ![r] = j]
        /\ pc' = [pc EXCEPT ![r] = IF j <= Len(batch[r]) THEN "check" ELSE "done"]
        /\ atEnd' = IF j <= Len(batch[r]) THEN atEnd
                    ELSE [atEnd EXCEPT ![r] = SubCounts]
        /\ UNCHANGED <<store, roster, batch, alreadyHas, createdCount,
                       newStatus, processed, stdout, uiOps, atStart>>

\* main().catch: the error of store call c ends the run.
catchHandler(r, c) ==
    /\ pc' = [pc EXCEPT ![r] = "aborted"]
    /\ exitCode' = [exitCode EXCEPT ![r] = 1]
    /\ stderr' = [stderr EXCEPT ![r] = Append(@, "ERROR triage:")]
    /\ calls' = [calls EXCEPT ![r] = Append(@, c)]
    /\ UNCHANGED <<env, broken>>
    /\ failures' = failures + 1
    /\ atEnd' = [atEnd EXCEPT ![r] = SubCounts]
    /\ UNCHANGED <<store, roster, batch, idx, alreadyHas, createdCount,
                   newStatus, processed, stdout, uiOps, atStart>>

\* `if (task.status !== 'inbox') continue;`: the first row from i on that
\* the loop body handles.
RECURSIVE nextInbox(_, _)
nextInbox(b, i) ==
    IF i <= Len(b) /\ b[i].status # "inbox" THEN nextInbox(b, i + 1) ELSE i

summaryLinesSilent(p) ==
    IF Len(p) = 0 THEN <<>>
    ELSE << [kind |-> "total", count |-> Len(p), text |-> "Procesado: N tasks"] >>
         \o [k \in 1..Len(p) |->
               [ kind |-> "item", id |-> p[k].id,
                 subtasks_created |-> p[k].subtasks_created,
                 status |-> p[k].status,
                 extra |-> IF p[k].skipped_existing
                           THEN " (subtasks ya existían)" ELSE "" ]]

\* The output summary.
summaryLines(p) ==
    IF Len(p) = 0
    THEN << [kind |-> "total", count |-> 0,
             text |-> "Procesado: 0 tasks (no había tasks en inbox)."] >>
    ELSE << [kind |-> "total", count |-> Len(p), text |-> "Procesado: N tasks"] >>
         \o [k \in 1..Len(p) |->
               [ kind |-> "item", id |-> p[k].id,
                 subtasks_created |-> p[k].subtasks_created,
                 status |-> p[k].status,
                 extra |-> IF p[k].skipped_existing
                           THEN " (subtasks ya existían)" ELSE "" ]]

\* The head of the for loop, entered with the rows b at position i and the
\* summary rows p: the next item's existence check, or the output and the
\* end of main.
loopHead(r, b, i, p) ==
    LET j == nextInbox(b, i)
    IN  /\ idx' = [idx EXCEPT ![r] = j]
        /\ IF j <= Len(b)
           THEN /\ pc' = [pc EXCEPT ![r] = "check"]
                /\ UNCHANGED <<stdout, atEnd>>
           ELSE /\ pc' = [pc EXCEPT ![r] = "done"]
                /\ stdout' = [stdout EXCEPT ![r] = summaryLines(p)]
                /\ atEnd' = [atEnd EXCEPT ![r] = SubCounts]

\* The module is loaded: the mustEnv calls and createClient, then main();
\* a throw of mustEnv is an uncaught exception, which ends the process
\* with exit code 1.
loadModule(r) ==
    IF loads(env[r])
    THEN /\ pc' = [pc EXCEPT ![r] = "roster"]
         /\ atStart' = [atStart EXCEPT ![r] = WithSubtasks]
         /\ UNCHANGED <<store, roster, batch, idx, alreadyHas, createdCount,
                        newStatus, processed, exitCode, stdout, stderr, calls,
                        uiOps, failures, env, broken, atEnd>>
    ELSE /\ pc' = [pc EXCEPT ![r] = "crashed"]
         /\ exitCode' = [exitCode EXCEPT ![r] = 1]
         /\ stderr' = [stderr EXCEPT ![r] = Append(@, "Error: Missing env:")]
         /\ UNCHANGED <<store, roster, batch, idx, alreadyHas, createdCount,
                        newStatus, processed, stdout, calls, uiOps, failures,
                        env, broken, atStart, atEnd>>

\* The process starts.
StartRun(r) ==
    /\ pc[r] = "idle"
    /\ \A q \in Runs : q < r => Ended(q)
    /\ loadModule(r)

GetAgentRoster(r) ==
    /\ pc[r] = "roster"
    /\ \E ok \in Outcomes :
        IF ok
        THEN /\ \E m \in rosterMaps(activeAgents(OWNER_ID)) :
                    roster' = [roster EXCEPT ![r] = m]
             /\ pc' = [pc EXCEPT ![r] = "fetch"]
             /\ calls' = [calls EXCEPT ![r] = Append(@, Call(r, "agents.select", 0, TRUE,
                                 Cardinality(activeAgents(OWNER_ID)), ""))]
             /\ UNCHANGED <<store, batch, idx, alreadyHas, createdCount,
                            newStatus, processed, exitCode, stdout, stderr,
                            uiOps, failures, env, broken, atEnd, atStart>>
        ELSE catchHandler(r, Call(r, "agents.select", 0, FALSE, 0, ""))

FetchTasks(r) ==
    /\ pc[r] = "fetch"
    /\ \E ok \in Outcomes :
        IF ok
        THEN /\ \E data \in {selectInbox(OWNER_ID)} :
                    /\ batch' = [batch EXCEPT ![r] = data]
                    /\ loopHead(r, data, 1, <<>>)
                    /\ calls' = [calls EXCEPT ![r] = Append(@,
                                    Call(r, "tasks.select", 0, TRUE, Len(data), ""))]
             /\ processed' = [processed EXCEPT ![r] = <<>>]
             /\ UNCHANGED <<store, roster, alreadyHas, createdCount,
                            newStatus, exitCode, stderr, uiOps, failures, env, broken, atStart>>
        ELSE catchHandler(r, Call(r, "tasks.select", 0, FALSE, 0, ""))

targetStatusInverted(needs) == IF needs THEN "triage" ELSE "needs_nico"

\* let newStatus = 'triage'; if (needs) newStatus = 'needs_nico'
targetStatus(needs) == IF needs THEN "needs_nico" ELSE "triage"

shouldDecomposeUnlessVague(already, needs) == ~needs

shouldDecomposeNever(already, needs) == FALSE

\* if (!alreadyHas && !needs)
shouldDecompose(already, needs) == ~already /\ ~needs

\* The existence check, and the locals the loop body sets before its next
\* store call.
CheckSubs(r) ==
    /\ pc[r] = "check"
    /\ \E ok \in OutcomesAt(r) :
        IF ok
        THEN LET found == existingSubs(OWNER_ID, task(r).id) # {}
                 needs == needsNico(task(r))
             IN  /\ alreadyHas' = [alreadyHas EXCEPT ![r] = found]
                 /\ createdCount' = [createdCount EXCEPT ![r] = 0]
                 /\ newStatus' = [newStatus EXCEPT ![r] = targetStatus(needs)]
                 /\ pc' = [pc EXCEPT ![r] =
                             IF shouldDecompose(found, needs)
                             THEN "insert" ELSE "comment"]
                 /\ calls' = [calls EXCEPT ![r] = Append(@, Call(r, "subtasks.select",
                                     task(r).id, TRUE,
                                     Cardinality(existingSubs(OWNER_ID, task(r).id)), ""))]
                 /\ UNCHANGED <<store, roster, batch, idx, processed,
                                exitCode, stdout, stderr, uiOps, failures, env, broken,
                                atEnd, atStart>>
        ELSE catchHandler(r, Call(r, "subtasks.select", task(r).id, FALSE, 0, ""))

InsertSubtasks(r) ==
    /\ pc[r] = "insert"
    /\ \E ok \in OutcomesAt(r) :
        IF ok
        THEN LET rows == subtaskRows(task(r), roster[r])
             IN  /\ subtasks' = subtasks \o rows
                 /\ createdCount' = [createdCount EXCEPT ![r] = Len(rows)]
                 /\ pc' = [pc EXCEPT ![r] = "logCreate"]
                 /\ calls' = [calls EXCEPT ![r] = Append(@, Call(r, "subtasks.insert",
                                     task(r).id, TRUE, Len(rows), ""))]
                 /\ UNCHANGED <<tasks, comments, activity, agents, roster,
                                batch, idx, alreadyHas, newStatus, processed,
                                exitCode, stdout, stderr, uiOps, failures, env, broken,
                                atEnd, atStart>>
        ELSE catchHandler(r, Call(r, "subtasks.insert", task(r).id, FALSE, 0, ""))

logActivitySwallow(r, action, data, next) ==
    \E ok \in OutcomesAt(r) :
        /\ activity' = IF ok
                       THEN Append(activity,
                              activityRow(roster[r], action, batch[r][idx[r]].id, data))
                       ELSE activity
        /\ pc' = [pc EXCEPT ![r] = next]
        /\ calls' = [calls EXCEPT ![r] = Append(@,
                        Call(r, "activity_log.insert", batch[r][idx[r]].id,
                             ok, IF ok THEN 1 ELSE 0, action))]
        /\ UNCHANGED <<env, broken>>
        /\ failures' = IF ok THEN failures ELSE failures + 1
        /\ UNCHANGED <<tasks, subtasks, comments, agents, roster, batch,
                       idx, alreadyHas, createdCount, newStatus,
                       processed, exitCode, stdout, stderr, uiOps,
                       atStart, atEnd>>

\* insertActivity of one action; on success the run goes on at `next`.
logActivity(r, action, data, next) ==
    \E ok \in OutcomesAt(r) :
        IF ok
        THEN /\ activity' = Append(activity,
                    activityRow(roster[r], action, task(r).id, data))
             /\ pc' = [pc EXCEPT ![r] = next]
             /\ calls' = [calls EXCEPT ![r] = Append(@, Call(r, "activity_log.insert",
                                 task(r).id, TRUE, 1, action))]
             /\ UNCHANGED <<tasks, subtasks, comments, agents, roster, batch,
                            idx, alreadyHas, createdCount, newStatus,
                            processed, exitCode, stdout, stderr, uiOps,
                            failures, env, broken, atEnd, atStart>>
        ELSE catchHandler(r, Call(r, "activity_log.insert", task(r).id,
                                  FALSE, 0, action))

LogCreateSubtasksThenUpdate(r) ==
    /\ pc[r] = "logCreate"
    /\ logActivity(r, "create_subtasks", [created |-> createdCount[r]], "update")

LogCreateSubtasks(r) ==
    /\ pc[r] = "logCreate"
    /\ logActivity(r, "create_subtasks", [created |-> createdCount[r]], "comment")

InsertCommentUnlessVague(r) ==
    /\ pc[r] = "comment"
    /\ IF needsNico(batch[r][idx[r]])
       THEN /\ pc' = [pc EXCEPT ![r] = "update"]
            /\ UNCHANGED <<store, roster, batch, idx, alreadyHas,
                           createdCount, newStatus, processed, exitCode,
                           stdout, stderr, calls, uiOps, failures, env, broken, atEnd,
                           atStart>>
       ELSE /\ comments' = Append(comments,
                    commentRow(batch[r][idx[r]], FALSE, roster[r]))
            /\ pc' = [pc EXCEPT ![r] = "logComment"]
            /\ calls' = [calls EXCEPT ![r] = Append(@,
                    Call(r, "comments.insert", batch[r][idx[r]].id, TRUE, 1, ""))]
            /\ UNCHANGED <<tasks, subtasks, activity, agents, roster, batch,
                           idx, alreadyHas, createdCount, newStatus,
                           processed, exitCode, stdout, stderr, uiOps,
                           failures, env, broken, atEnd, atStart>>

\* The generated comment, written for every item of the loop.
InsertComment(r) ==
    /\ pc[r] = "comment"
    /\ \E ok \in OutcomesAt(r) :
        IF ok
        THEN /\ comments' = Append(comments,
                    commentRow(task(r), needsNico(task(r)), roster[r]))
             /\ pc' = [pc EXCEPT ![r] = "logComment"]
             /\ calls' = [calls EXCEPT ![r] = Append(@, Call(r, "comments.insert",
                                 task(r).id, TRUE, 1, ""))]
             /\ UNCHANGED <<tasks, subtasks, activity, agents, roster, batch,
                            idx, alreadyHas, createdCount, newStatus,
                            processed, exitCode, stdout, stderr, uiOps,
                            failures, env, broken, atEnd, atStart>>
        ELSE catchHandler(r, Call(r, "comments.insert", task(r).id, FALSE, 0, ""))

LogAddComment(r) ==
    /\ pc[r] = "logComment"
    /\ logActivity(r, "add_comment", [kind |-> "triage_summary"], "update")

UpdateStatusStrict(r) ==
    /\ pc[r] = "update"
    /\ LET t == batch[r][idx[r]].id
           hit == tasks[t].owner_id = OWNER_ID /\ tasks[t].status = "inbox"
       IN  \E ok \in OutcomesAt(r) :
             /\ tasks' = IF ok /\ hit
                         THEN [tasks EXCEPT ![t].status = newStatus[r]]
                         ELSE tasks
             /\ pc' = [pc EXCEPT ![r] = IF ok /\ hit THEN "logMove" ELSE "aborted"]
             /\ exitCode' = [exitCode EXCEPT ![r] = IF ok /\ hit THEN @ ELSE 1]
             /\ calls' = [calls EXCEPT ![r] = Append(@,
                             Call(r, "tasks.update", t, ok,
                                  IF ok /\ hit THEN 1 ELSE 0, newStatus[r]))]
             /\ UNCHANGED <<env, broken>>
             /\ failures' = IF ok THEN failures ELSE failures + 1
             /\ atEnd' = IF ok /\ hit THEN atEnd
                         ELSE [atEnd EXCEPT ![r] = SubCounts]
             /\ UNCHANGED <<subtasks, comments, activity, agents, roster,
                            batch, idx, alreadyHas, createdCount, newStatus,
                            processed, stdout, stderr, uiOps, atStart>>

\* The conditional status write.
UpdateStatus(r) ==
    /\ pc[r] = "update"
    /\ \E ok \in OutcomesAt(r) :
        IF ok
        THEN /\ tasks' = conditionalUpdate(OWNER_ID, task(r).id, newStatus[r])
             /\ pc' = [pc EXCEPT ![r] = "logMove"]
             /\ calls' = [calls EXCEPT ![r] = Append(@, Call(r, "tasks.update", task(r).id,
                                 TRUE, rowsMatched(OWNER_ID, task(r).id),
                                 newStatus[r]))]
             /\ UNCHANGED <<subtasks, comments, activity, agents, roster,
                            batch, idx, alreadyHas, createdCount, newStatus,
                            processed, exitCode, stdout, stderr, uiOps,
                            failures, env, broken, atEnd, atStart>>
        ELSE catchHandler(r, Call(r, "tasks.update", task(r).id, FALSE, 0,
                                  newStatus[r]))

LogMoveStatusIfChanged(r) ==
    /\ pc[r] = "logMove"
    /\ LET t == batch[r][idx[r]].id
           p == Append(processed[r],
                   [ id |-> t, subtasks_created |-> createdCount[r],
                     status |-> newStatus[r],
                     skipped_existing |-> alreadyHas[r] ])
       IN  /\ activity' = IF tasks[t].status = newStatus[r]
                          THEN Append(activity,
                                 activityRow(roster[r], "move_status", t,
                                     [from |-> "inbox", to |-> newStatus[r]]))
                          ELSE activity
           /\ processed' = [processed EXCEPT ![r] = p]
           /\ loopHead(r, batch[r], idx[r] + 1, p)
           /\ calls' = [calls EXCEPT ![r] = Append(@,
                   Call(r, "activity_log.insert", t, TRUE, 1, "move_status"))]
           /\ UNCHANGED <<tasks, subtasks, comments, agents, roster, batch,
                          alreadyHas, createdCount, newStatus, exitCode,
                          stderr, uiOps, failures, env, broken, atStart>>

\* The move_status entry, the summary row of the item, and the loop head.
LogMoveStatus(r) ==
    /\ pc[r] = "logMove"
    /\ \E ok \in OutcomesAt(r) :
        IF ok
        THEN LET p == Append(processed[r],
                        [ id |-> task(r).id,
                          subtasks_created |-> createdCount[r],
                          status |-> newStatus[r],
                          skipped_existing |-> alreadyHas[r] ])
             IN  /\ activity' = Append(activity,
                        activityRow(roster[r], "move_status", task(r).id,
                                    [from |-> "inbox", to |-> newStatus[r]]))
                 /\ processed' = [processed EXCEPT ![r] = p]
                 /\ loopHead(r, batch[r], idx[r] + 1, p)
                 /\ calls' = [calls EXCEPT ![r] = Append(@, Call(r, "activity_log.insert",
                                     task(r).id, TRUE, 1, "move_status"))]
                 /\ UNCHANGED <<tasks, subtasks, comments, agents, roster,
                                batch, alreadyHas, createdCount, newStatus,
                                exitCode, stderr, uiOps, failures, env, broken, atStart>>
        ELSE catchHandler(r, Call(r, "activity_log.insert", task(r).id,
                                  FALSE, 0, "move_status"))

-----------------------------------------------------------------------------
(* The board's server actions that write to the relations the job reads.   *)
(* A signed-in user reaches only the rows of their own (row level          *)
(* security, as the comment in bulkUpdateTasks has it).                    *)

\* createTask: a new item in inbox.
createTask(u, form) ==
    LET title == trim(form.title)
        description == trim(form.description)
    IN  /\ title # <<>>
        /\ Len(tasks) < MaxTasks
        /\ tasks' = Append(tasks,
              [ owner_id |-> u, title |-> title,
                description |-> IF description = <<>> THEN Null ELSE description,
                status |-> "inbox" ])
        /\ UNCHANGED <<subtasks, comments, activity, agents, pc, roster,
                       batch, idx, alreadyHas, createdCount, newStatus,
                       processed, exitCode, stdout, stderr, calls, uiOps,
                       failures, env, broken, atEnd, atStart>>

\* moveTask: an unconditional status write.
moveTask(u, id, status) ==
    /\ uiOps < MaxUiOps
    /\ status \in StatusSet
    /\ id \in 1..Len(tasks)
    /\ tasks[id].owner_id = u
    /\ tasks[id].status # status
    /\ tasks' = [tasks EXCEPT ![id].status = status]
    /\ uiOps' = uiOps + 1
    /\ UNCHANGED <<subtasks, comments, activity, agents, pc, roster, batch,
                   idx, alreadyHas, createdCount, newStatus, processed,
                   exitCode, stdout, stderr, calls, failures, env, broken, atEnd, atStart>>

createSubtaskUnchecked(u, id, form) ==
    /\ uiOps < MaxUiOps
    /\ id \in 1..Len(tasks)
    /\ tasks[id].owner_id = u
    /\ subtasks' = Append(subtasks,
          [ owner_id |-> u, task_id |-> id, title |-> form.title,
            definition_of_done |-> form.definition_of_done,
            status |-> "in_progress",
            assignee_agent_id |-> IF form.assignee_agent_id # ""
                                  THEN form.assignee_agent_id ELSE NullId ])
    /\ uiOps' = uiOps + 1
    /\ UNCHANGED <<tasks, comments, activity, agents, pc, roster, batch, idx,
                   alreadyHas, createdCount, newStatus, processed, exitCode,
                   stdout, stderr, calls, failures, env, broken, atEnd, atStart>>

\* createSubtask: one subtask by hand; `if (!title || !definition_of_done)
\* return` on the trimmed fields.
createSubtask(u, id, form) ==
    /\ uiOps < MaxUiOps
    /\ id \in 1..Len(tasks)
    /\ tasks[id].owner_id = u
    /\ trim(form.title) # <<>> /\ trim(form.definition_of_done) # <<>>
    /\ subtasks' = Append(subtasks,
          [ owner_id |-> u, task_id |-> id, title |-> trim(form.title),
            definition_of_done |-> trim(form.definition_of_done),
            status |-> "in_progress",
            assignee_agent_id |-> IF form.assignee_agent_id # ""
                                  THEN form.assignee_agent_id ELSE NullId ])
    /\ uiOps' = uiOps + 1
    /\ UNCHANGED <<tasks, comments, activity, agents, pc, roster, batch, idx,
                   alreadyHas, createdCount, newStatus, processed, exitCode,
                   stdout, stderr, calls, failures, env, broken, atEnd, atStart>>

-----------------------------------------------------------------------------
(* Specifications.                                                         *)

RunStep(r) ==
    \/ GetAgentRoster(r)
    \/ FetchTasks(r)
    \/ CheckSubs(r)
    \/ InsertSubtasks(r)
    \/ LogCreateSubtasks(r)
    \/ InsertComment(r)
    \/ LogAddComment(r)
    \/ UpdateStatus(r)
    \/ LogMoveStatus(r)

UiStep ==
    \/ \E in \in TaskInputs : createTask(in[1], in[2])
    \/ \E id \in 1..MaxTasks, status \in MoveTargets :
          moveTask(OWNER_ID, id, status)
    \/ \E id \in 1..MaxTasks, form \in SubtaskForms :
          createSubtask(OWNER_ID, id, form)

\* Runs never overlap: the scheduler starts a run when the one before it
\* has ended.
Next ==
    \/ \E r \in Runs : StartRun(r)
    \/ \E r \in Runs : RunStep(r)
    \/ UiStep

Spec == Init /\ [][Next]_vars

\* Two runs may overlap: nothing in the script keeps a second process from
\* starting while the first is at work.
StartOverlapping(r) ==
    /\ pc[r] = "idle"
    /\ \A q \in Runs : q < r => pc[q] # "idle"
    /\ loadModule(r)

\* The backlog is the one both runs find: items are created before the
\* first run starts.
NextOverlap ==
    \/ \E r \in Runs : StartOverlapping(r)
    \/ \E r \in Runs : RunStep(r)
    \/ \E in \in TaskInputs :
          (\A r \in Runs : pc[r] = "idle") /\ createTask(in[1], in[2])

SpecOverlap == Init /\ [][NextOverlap]_vars

\* Items as any client of the store may have written them: titles and
\* descriptions not trimmed, descriptions null, empty or blank.
TextTitles ==
    {
      <<"a","y","u","d","a">>,
      <<"¡","¡","p","e","n","d","i","e","n","t","e","!","!">>,
      <<"P","E","N","D","I","E","N","T","E">>,
      <<"p","e","n","d","i","e","n","t","e","s">>,
      <<"1","2","3","4","5","6","7">>,
      <<"1","2","3","4","5","6","7","8">>,
      <<"_","_","t","o","d","o","_","_">>,
      <<"-","-","t","o","d","o","-","-">>,
      <<" "," "," ">>,
      <<"F","i","x"," ","b","u","g"," ","i","n"," ","A","P","I">>,
      <<"P","o","s","t"," ","d","e","p","l","o","y">>,
      <<"D","e","p","l","o","y"," ","f","i","x">>,
      <<"F","i","x"," ","t","h","e"," ","d","o","c","s">>,
      <<"C","o","m","p","a","r","a","r"," ","a","l","t","e","r","n","a","t","i","v","a","s">>,
      <<"L","l","a","m","a","r"," ","a"," ","P","e","d","r","o">>,
      <<"C","Ó","D","I","G","O"," ","r","o","t","o">>,
      <<"M","i","r","a","r"," ","e","l"," ","d","e">> }

TextDescriptions ==
    { Null,
      <<>>,
      <<" "," ","\n">>,
      <<"d","o","c","s">>,
      <<"C","r","o","n"," ","d","e","l"," ","s","e","r","v","i","d","o","r">>,
      <<"p","l","o","y">> }

TextRows ==
    { [ owner_id |-> OWNER_ID, title |-> ti, description |-> de,
        status |-> "inbox" ] : ti \in TextTitles, de \in TextDescriptions }

\* The backlog holds one item, of any of these texts.
InitTexts ==
    /\ \E row \in TextRows : tasks = <<row>>
    /\ subtasks = <<>>
    /\ comments = <<>>
    /\ activity = <<>>
    /\ agents = AgentTable
    /\ pc = [r \in Runs |-> "idle"]
    /\ roster = [r \in Runs |-> <<>>]
    /\ batch = [r \in Runs |-> <<>>]
    /\ idx = [r \in Runs |-> 0]
    /\ alreadyHas = [r \in Runs |-> FALSE]
    /\ createdCount = [r \in Runs |-> 0]
    /\ newStatus = [r \in Runs |-> "triage"]
    /\ processed = [r \in Runs |-> <<>>]
    /\ exitCode = [r \in Runs |-> 0]
    /\ stdout = [r \in Runs |-> <<>>]
    /\ stderr = [r \in Runs |-> <<>>]
    /\ calls = [r \in Runs |-> <<>>]
    /\ uiOps = 0
    /\ failures = 0
    /\ env = [r \in Runs |-> FullEnv]
    /\ broken = NoBreak
    /\ atStart = [r \in Runs |-> {}]
    /\ atEnd = [r \in Runs |-> [t \in 1..MaxTasks |-> 0]]

NextTexts ==
    \/ \E r \in Runs : StartRun(r)
    \/ \E r \in Runs : RunStep(r)

SpecTexts == InitTexts /\ [][NextTexts]_vars

\* A backlog of n items in creation order as the board left it: every fifth
\* item has enough information, the others are bare calls for help; item
\* `odd`, if any, is of another owner or was already moved to triage.
BacklogKinds == {"otro", "triage"}

BacklogRow(i, odd, kind) ==
    [ owner_id |-> IF i = odd /\ kind = "otro" THEN "otro" ELSE OWNER_ID,
      title |-> IF i % 5 = 1 THEN trim(FormFix.title) ELSE trim(FormAyuda.title),
      description |-> Null,
      status |-> IF i = odd /\ kind = "triage" THEN "triage" ELSE "inbox" ]

InitBacklog ==
    /\ \E n \in 0..MaxBacklog : \E odd \in 0..n : \E kind \in BacklogKinds :
          tasks = [i \in 1..n |-> BacklogRow(i, odd, kind)]
    /\ subtasks = <<>>
    /\ comments = <<>>
    /\ activity = <<>>
    /\ agents = AgentTable
    /\ pc = [r \in Runs |-> "idle"]
    /\ roster = [r \in Runs |-> <<>>]
    /\ batch = [r \in Runs |-> <<>>]
    /\ idx = [r \in Runs |-> 0]
    /\ alreadyHas = [r \in Runs |-> FALSE]
    /\ createdCount = [r \in Runs |-> 0]
    /\ newStatus = [r \in Runs |-> "triage"]
    /\ processed = [r \in Runs |-> <<>>]
    /\ exitCode = [r \in Runs |-> 0]
    /\ stdout = [r \in Runs |-> <<>>]
    /\ stderr = [r \in Runs |-> <<>>]
    /\ calls = [r \in Runs |-> <<>>]
    /\ uiOps = 0
    /\ failures = 0
    /\ env = [r \in Runs |-> FullEnv]
    /\ broken = NoBreak
    /\ atStart = [r \in Runs |-> {}]
    /\ atEnd = [r \in Runs |-> [t \in 1..MaxTasks |-> 0]]

\* One invocation of the job over the backlog.
NextBacklog ==
    \/ StartRun(1)
    \/ RunStep(1)

SpecBacklog == InitBacklog /\ [][NextBacklog]_vars

\* Agent tables of every make: the default agent there or not, two agents
\* whose names differ in case only, an inactive one, another owner's.
AgentDevLower ==
    [ id |-> "ag-dev2", name |-> <<"d","e","v">>,
      owner_id |-> OWNER_ID, is_active |-> TRUE ]

AgentResearch ==
    [ id |-> "ag-research", name |-> <<"R","E","S","E","A","R","C","H">>,
      owner_id |-> OWNER_ID, is_active |-> TRUE ]

AgentPool ==
    {AgentJarvis, AgentDev, AgentDevLower, AgentOps, AgentResearch, AgentOtro}

RosterTitles ==
    { <<"F","i","x"," ","b","u","g"," ","i","n"," ","A","P","I">>,
      <<"D","e","p","l","o","y"," ","f","i","x">>,
      <<"C","o","m","p","a","r","a","r"," ","a","l","t","e","r","n","a","t","i","v","a","s">> }

\* One inbox item with enough information, and any agent table.
InitRoster ==
    /\ \E ti \in RosterTitles :
          tasks = << [ owner_id |-> OWNER_ID, title |-> ti,
                       description |-> Null, status |-> "inbox" ] >>
    /\ agents \in SUBSET AgentPool
    /\ subtasks = <<>>
    /\ comments = <<>>
    /\ activity = <<>>
    /\ pc = [r \in Runs |-> "idle"]
    /\ roster = [r \in Runs |-> <<>>]
    /\ batch = [r \in Runs |-> <<>>]
    /\ idx = [r \in Runs |-> 0]
    /\ alreadyHas = [r \in Runs |-> FALSE]
    /\ createdCount = [r \in Runs |-> 0]
    /\ newStatus = [r \in Runs |-> "triage"]
    /\ processed = [r \in Runs |-> <<>>]
    /\ exitCode = [r \in Runs |-> 0]
    /\ stdout = [r \in Runs |-> <<>>]
    /\ stderr = [r \in Runs |-> <<>>]
    /\ calls = [r \in Runs |-> <<>>]
    /\ uiOps = 0
    /\ failures = 0
    /\ env = [r \in Runs |-> FullEnv]
    /\ broken = NoBreak
    /\ atStart = [r \in Runs |-> {}]
    /\ atEnd = [r \in Runs |-> [t \in 1..MaxTasks |-> 0]]

NextRoster ==
    \/ \E r \in Runs : StartRun(r)
    \/ \E r \in Runs : RunStep(r)

SpecRoster == InitRoster /\ [][NextRoster]_vars

-----------------------------------------------------------------------------
(* Reading the history.                                                    *)

TaskRange == 1..MaxTasks

CallIdx(r) == 1..Len(calls[r])

\* Call k of run r succeeded, was `op`, and was about item t.
Did(r, k, op, t) ==
    /\ calls[r][k].op = op
    /\ calls[r][k].task = t
    /\ calls[r][k].ok

\* The runs' successful subtask batch inserts for item t.
BatchInserts(t) ==
    UNION { {<<r, k>> : k \in {j \in CallIdx(r) :
                                  Did(r, j, "subtasks.insert", t)}} : r \in Runs }

\* The successful status writes that changed the row of item t.
StatusWrites(t) ==
    UNION { {<<r, k>> : k \in {j \in CallIdx(r) :
                Did(r, j, "tasks.update", t) /\ calls[r][j].n > 0}} : r \in Runs }

\* Run r pushed a summary row for item t.
ProcessedBy(r, t) == \E j \in 1..Len(processed[r]) : processed[r][j].id = t

\* The automated subtasks of item t, in store order.
AutoRows(t) ==
    LET Test(row) == row.task_id = t /\ IsAuto(row)
    IN  SelectSeq(subtasks, Test)

\* The last store call of run r.
LastCall(r) == calls[r][Len(calls[r])]

\* The texts an item of the model can carry, with the verdict and the plan
\* of each, computed once.
Texts ==
    { [ title |-> trim(f.title),
        description |-> IF trim(f.description) = <<>> THEN Null
                        ELSE trim(f.description) ] : f \in Forms }

VagueOf == [x \in Texts |-> needsNico(x)]

PlanOf == [x \in Texts |-> buildSubtasks(x)]

TextOf(t) == [title |-> tasks[t].title, description |-> tasks[t].description]

IsVague(t) == VagueOf[TextOf(t)]

PlanFor(t) == PlanOf[TextOf(t)]

-----------------------------------------------------------------------------
(* C1                                                                      *)

\* C1: over non-overlapping runs, with store failures and with the board
\* moving items back to inbox and adding subtasks by hand, the job inserts at
\* most one batch of subtasks per item, and a run that started when the item
\* already had a subtask inserts none for it.
C1_AtMostOneBatch ==
    \A t \in TaskRange :
        /\ Cardinality(BatchInserts(t)) <= 1
        /\ \A r \in Runs : \A k \in CallIdx(r) :
              Did(r, k, "subtasks.insert", t) => t \notin atStart[r]

\* Run 1 decomposed an item, the item came back to inbox, and run 2 went
\* through it again and found the subtasks.
C1_Witness ==
    \E t \in TaskRange :
        /\ \E k \in CallIdx(1) : Did(1, k, "subtasks.insert", t)
        /\ \E k \in CallIdx(2) :
              Did(2, k, "subtasks.select", t) /\ calls[2][k].n = 1
        /\ ProcessedBy(2, t)
        /\ Cardinality(BatchInserts(t)) = 1

-----------------------------------------------------------------------------
(* C2                                                                      *)

\* C2: when a run created subtasks for an item and a later run has ended
\* too, the item has as many subtasks after the later run as it had after
\* the first one (no subtask being added by hand).
C2_SecondRunKeepsCount ==
    \A t \in TaskRange : \A r1, r2 \in Runs :
        ( /\ r1 < r2
          /\ Ended(r1) /\ Ended(r2)
          /\ \E k \in CallIdx(r1) : Did(r1, k, "subtasks.insert", t)
          /\ ManualCount(t) = 0 )
        => atEnd[r2][t] = atEnd[r1][t]

\* Both runs completed, the first created the subtasks, the second handled
\* the same item again, and the count is the same.
C2_Witness ==
    \E t \in TaskRange :
        /\ pc[1] = "done" /\ pc[2] = "done"
        /\ \E k \in CallIdx(1) : Did(1, k, "subtasks.insert", t)
        /\ \E k \in CallIdx(2) : Did(2, k, "tasks.update", t)
        /\ ManualCount(t) = 0
        /\ atEnd[1][t] > 0
        /\ atEnd[2][t] = atEnd[1][t]

-----------------------------------------------------------------------------
(* C3                                                                      *)

\* Run r's status write is answered without error while the stored status
\* of its item is no longer inbox.
C3_StaleWrite(r) ==
    /\ pc[r] = "update"
    /\ Len(calls'[r]) = Len(calls[r]) + 1
    /\ LastCall(r)'.ok
    /\ tasks[task(r).id].status # "inbox"

\* Run r logs the move after a status write that changed no row.
C3_AfterStaleWrite(r) ==
    /\ pc[r] = "logMove"
    /\ LastCall(r).n = 0
    /\ Len(calls'[r]) = Len(calls[r]) + 1
    /\ LastCall(r)'.ok

\* C3: a status write that finds the item's status changed by someone else
\* changes no row, leaves that status in place, raises no error, and the run
\* goes on to the next item.
C3_ConditionalWrite ==
    [][ \A r \in Runs :
          /\ C3_StaleWrite(r) =>
                /\ tasks' = tasks
                /\ LastCall(r)'.n = 0
                /\ pc'[r] = "logMove"
                /\ exitCode'[r] = 0
          /\ C3_AfterStaleWrite(r) =>
                /\ idx'[r] > idx[r]
                /\ pc'[r] \in {"check", "done"}
                /\ exitCode'[r] = 0 ]_vars

\* The board moved the first item to done while the run was at it; the
\* run's write changed nothing and the run is at its second item.
C3_Witness ==
    \E r \in Runs :
        /\ pc[r] = "check"
        /\ idx[r] = 2
        /\ \E k \in CallIdx(r) :
              /\ Did(r, k, "tasks.update", batch[r][1].id)
              /\ calls[r][k].n = 0
        /\ tasks[batch[r][1].id].status = "done"

-----------------------------------------------------------------------------
(* C4                                                                      *)

\* C4: with overlapping runs every batch insert still follows an existence
\* check made when the item had no subtask, and every insert adds its whole
\* batch: two runs that both checked before either inserted leave the item
\* with two batches.
C4_DuplicateByRace ==
    \A t \in 1..Len(tasks) :
        /\ \A r \in Runs : \A k \in CallIdx(r) :
              Did(r, k, "subtasks.insert", t) =>
                 /\ k > 1
                 /\ Did(r, k - 1, "subtasks.select", t)
                 /\ ~calls[r][k - 1].had
        /\ \A r \in Runs :
              Cardinality({k \in CallIdx(r) :
                              Did(r, k, "subtasks.insert", t)}) <= 1
        /\ AutoCount(t) =
              Cardinality(BatchInserts(t)) * Len(PlanFor(t))

\* Both runs inserted a batch for the same item.
C4_Witness ==
    \E t \in 1..Len(tasks) :
        /\ \E k \in CallIdx(1) : Did(1, k, "subtasks.insert", t)
        /\ \E k \in CallIdx(2) : Did(2, k, "subtasks.insert", t)
        /\ AutoCount(t) = 2 * Len(PlanFor(t))
        /\ ManualCount(t) = 0

-----------------------------------------------------------------------------
(* C5                                                                      *)

\* C5: a store call that fails is the last store call of its run, and the
\* run has ended with a non-zero exit status.
C5_FailFast ==
    \A r \in Runs : \A k \in CallIdx(r) :
        ~calls[r][k].ok =>
            /\ k = Len(calls[r])
            /\ pc[r] = "aborted"
            /\ exitCode[r] # 0

\* The comment insert of the first of two items failed: the run is over and
\* has issued no call for the second item.
C5_Witness ==
    \E r \in Runs :
        /\ pc[r] = "aborted"
        /\ Len(batch[r]) = 2
        /\ idx[r] = 1
        /\ LastCall(r).op = "comments.insert"
        /\ ~LastCall(r).ok
        /\ \A k \in CallIdx(r) : calls[r][k].task # batch[r][2].id
        /\ tasks[batch[r][2].id].status = "inbox"

-----------------------------------------------------------------------------
(* C6                                                                      *)

\* C6: the step in which a run aborts leaves every relation of the store as
\* it was: what the run wrote before, for earlier items and for the item at
\* hand, stays.
C6_NoRollback ==
    [][ \A r \in Runs :
          (pc[r] # "aborted" /\ pc'[r] = "aborted") => store' = store ]_vars

\* A run aborted at its second item, after that item's subtasks and comment
\* were written; the first item's subtasks, comment, status and activity
\* entries are in the store.
C6_Witness ==
    \E r \in Runs :
        /\ pc[r] = "aborted"
        /\ idx[r] = 2
        /\ LET t1 == batch[r][1].id
               t2 == batch[r][2].id
           IN  /\ AutoCount(t1) > 0
               /\ tasks[t1].status = "triage"
               /\ \E c \in 1..Len(comments) : comments[c].task_id = t1
               /\ \E a \in 1..Len(activity) :
                     /\ activity[a].entity_id = t1
                     /\ activity[a].action = "move_status"
               /\ AutoCount(t2) > 0
               /\ \E c \in 1..Len(comments) : comments[c].task_id = t2
               /\ tasks[t2].status = "inbox"

-----------------------------------------------------------------------------
(* C7                                                                      *)

\* C7 as stated: a second run over an item the first run triaged, nothing
\* else having touched the store, creates no subtasks for the item, adds a
\* comment and activity entries for it, and issues a status write for it that
\* changes no row and raises no error.
C7_SecondPassComments ==
    \A t \in TaskRange : \A r1, r2 \in Runs :
        ( /\ r1 < r2
          /\ pc[r1] = "done" /\ ProcessedBy(r1, t)
          /\ pc[r2] = "done"
          /\ uiOps = 0 )
        => /\ \A k \in CallIdx(r2) : ~Did(r2, k, "subtasks.insert", t)
           /\ \E k \in CallIdx(r2) : Did(r2, k, "comments.insert", t)
           /\ \E k \in CallIdx(r2) : Did(r2, k, "activity_log.insert", t)
           /\ \E k \in CallIdx(r2) :
                 Did(r2, k, "tasks.update", t) /\ calls[r2][k].n = 0
           /\ exitCode[r2] = 0

\* C7 as amended: the later run does not fetch the item, whose status is no
\* longer inbox: it issues no store call about it, so no subtask, comment,
\* activity entry or status write, and the item keeps the status and the
\* subtasks the first run left.
C7_SecondPassSkipsItem ==
    \A t \in TaskRange : \A r1, r2 \in Runs :
        ( /\ r1 < r2
          /\ pc[r1] = "done" /\ ProcessedBy(r1, t)
          /\ uiOps = 0 )
        => /\ \A k \in CallIdx(r2) : calls[r2][k].task # t
           /\ \A j \in 1..Len(batch[r2]) : batch[r2][j].id # t
           /\ tasks[t].status = targetStatus(IsVague(t))
           /\ AutoCount(t) + ManualCount(t) = atEnd[r1][t]
           /\ exitCode[r2] = 0 \/ ~LastCall(r2).ok

\* Scenario C: the first run gave the item its three subtasks and moved it
\* to triage; the second run has completed.
C7_Witness ==
    \E t \in TaskRange :
        /\ pc[1] = "done" /\ ProcessedBy(1, t)
        /\ pc[2] = "done"
        /\ uiOps = 0
        /\ AutoCount(t) = 3
        /\ tasks[t].status = "triage"
        /\ \E c \in 1..Len(comments) : comments[c].task_id = t

-----------------------------------------------------------------------------
(* C8                                                                      *)

\* C8: a step of the job that changes an item's status changes it from
\* inbox to triage or to needs_nico; and as long as the board has moved
\* nothing, no item has had its status changed twice.
C8_OnlyFromInbox ==
    [][ \A t \in 1..Len(tasks) :
          /\ (calls' # calls /\ tasks'[t].status # tasks[t].status) =>
                /\ tasks[t].status = "inbox"
                /\ tasks'[t].status \in {"triage", "needs_nico"}
          /\ uiOps' = 0 => Cardinality(StatusWrites(t)') <= 1 ]_vars

\* Two runs completed with no move by the board; a vague item went to
\* needs_nico by the one status write it ever got.
C8_Witness ==
    \E t \in TaskRange :
        /\ pc[1] = "done" /\ pc[2] = "done"
        /\ uiOps = 0
        /\ Cardinality(StatusWrites(t)) = 1
        /\ tasks[t].status = "needs_nico"

-----------------------------------------------------------------------------
(* C9                                                                      *)

MissingContextNote(body) ==
    /\ body[1] = <<"Resumen: ">> \o ResumenMissing
    /\ \E i \in 1..Len(body) : body[i] = <<"- ", PasoFaltaInfo>>

\* C9: every status write and every move_status entry of the job carries
\* needs_nico when the item is vague and triage when it is not, whether or
\* not the item had subtasks; for a vague item the job attempts no subtask
\* insert, reports zero subtasks created, and writes a comment that holds
\* the missing-context note.
C9_TargetByVagueness ==
    /\ \A r \in Runs : \A k \in CallIdx(r) :
          /\ calls[r][k].op = "tasks.update" =>
                calls[r][k].arg = (IF IsVague(calls[r][k].task)
                                   THEN "needs_nico" ELSE "triage")
          /\ calls[r][k].op = "subtasks.insert" => ~IsVague(calls[r][k].task)
    /\ \A r \in Runs : \A j \in 1..Len(processed[r]) :
          /\ processed[r][j].status = (IF IsVague(processed[r][j].id)
                                       THEN "needs_nico" ELSE "triage")
          /\ IsVague(processed[r][j].id) => processed[r][j].subtasks_created = 0
    /\ \A a \in 1..Len(activity) :
          activity[a].action = "move_status" =>
             activity[a].data.to = (IF IsVague(activity[a].entity_id)
                                    THEN "needs_nico" ELSE "triage")
    /\ \A c \in 1..Len(comments) :
          IsVague(comments[c].task_id) => MissingContextNote(comments[c].body)
    /\ \A t \in 1..Len(tasks) : IsVague(t) => AutoCount(t) = 0

\* A vague item that had a subtask made by hand went through a pass: target
\* needs_nico, nothing created, the note in the comment.
C9_Witness ==
    \E r \in Runs : \E j \in 1..Len(processed[r]) :
        LET t == processed[r][j].id
        IN  /\ IsVague(t)
            /\ processed[r][j].skipped_existing
            /\ processed[r][j].status = "needs_nico"
            /\ tasks[t].status = "needs_nico"
            /\ \E c \in 1..Len(comments) :
                  comments[c].task_id = t /\ MissingContextNote(comments[c].body)

-----------------------------------------------------------------------------
(* C10                                                                     *)

\* What the rows of a batch must carry, step by step of the plan.
ExpectedRows(t) ==
    [k \in 1..Len(PlanFor(t)) |->
        [ title |-> PlanFor(t)[k].title,
          definition_of_done |-> PlanFor(t)[k].definition_of_done,
          sort_order |-> k - 1,
          metadata |-> [triage_bucket |-> PlanFor(t)[k].bucket] ]]

RowView(row) ==
    [ title |-> row.title, definition_of_done |-> row.definition_of_done,
      sort_order |-> row.sort_order, metadata |-> row.metadata ]

\* The create_subtasks entries of item t.
CreateEntries(t) ==
    {a \in 1..Len(activity) :
        activity[a].action = "create_subtasks" /\ activity[a].entity_id = t}

\* C10: after the existence check of an item a run goes to the subtask
\* insert exactly when the item had no subtask and is not vague; the rows of
\* the item are then one batch, in plan order, with sort_order 0..n-1 and the
\* step's bucket in metadata; and the create_subtasks entry that follows
\* carries the number of rows.
C10_DecomposeOnce ==
    \A t \in 1..Len(tasks) :
        /\ \A r \in Runs : \A k \in CallIdx(r) :
              /\ (Did(r, k, "subtasks.select", t) /\ k < Len(calls[r])) =>
                    ( calls[r][k + 1].op = "subtasks.insert"
                      <=> (~calls[r][k].had /\ ~IsVague(t)) )
              /\ (calls[r][k].op = "subtasks.insert" /\ calls[r][k].task = t) =>
                    k > 1 /\ Did(r, k - 1, "subtasks.select", t)
              /\ (Did(r, k, "subtasks.insert", t) /\ k < Len(calls[r])) =>
                    /\ calls[r][k + 1].op = "activity_log.insert"
                    /\ calls[r][k + 1].arg = "create_subtasks"
                    /\ calls[r][k + 1].task = t
              /\ Did(r, k, "subtasks.insert", t) =>
                    calls[r][k].n = Len(PlanFor(t))
        /\ AutoRows(t) # <<>> <=> BatchInserts(t) # {}
        /\ AutoRows(t) # <<>> =>
              /\ [k \in 1..Len(AutoRows(t)) |-> RowView(AutoRows(t)[k])]
                    = ExpectedRows(t)
              /\ \E first \in 1..Len(subtasks) :
                    SubSeq(subtasks, first, first + Len(AutoRows(t)) - 1)
                       = AutoRows(t)
        /\ Cardinality(CreateEntries(t)) <= Cardinality(BatchInserts(t))
        /\ \A a \in CreateEntries(t) :
              activity[a].data.created = Len(AutoRows(t))
        /\ Cardinality(CreateEntries(t)) =
              Cardinality(UNION { {<<r, k>> : k \in {j \in CallIdx(r) :
                    /\ Did(r, j, "activity_log.insert", t)
                    /\ calls[r][j].arg = "create_subtasks"}} : r \in Runs })

\* One run handled a vague item and an item with enough information: the
\* second got its three rows and a create_subtasks entry of 3, the first got
\* none.
C10_Witness ==
    \E r \in Runs : \E t, v \in 1..Len(tasks) :
        /\ pc[r] = "done"
        /\ ProcessedBy(r, t) /\ ProcessedBy(r, v)
        /\ IsVague(v) /\ AutoRows(v) = <<>> /\ CreateEntries(v) = {}
        /\ Len(AutoRows(t)) = 3
        /\ \E a \in CreateEntries(t) : activity[a].data.created = 3

-----------------------------------------------------------------------------
(* C11                                                                     *)

\* The successful calls of run r with operation op and value arg about t.
CallsOf(r, op, arg, t) ==
    {k \in CallIdx(r) : Did(r, k, op, t) /\ calls[r][k].arg = arg}

\* C11: a run writes at most one comment per item; an item the run
\* processed, vague or not, with subtasks or without, got exactly one
\* comment from it and exactly one add_comment entry, the entry being the
\* call right after the comment; and the comments and add_comment entries in
\* the store are those the runs' calls wrote.
C11_OneCommentPerItem ==
    /\ \A r \in Runs : \A t \in 1..Len(tasks) :
          /\ Cardinality(CallsOf(r, "comments.insert", "", t)) <= 1
          /\ Cardinality(CallsOf(r, "activity_log.insert", "add_comment", t))
                <= Cardinality(CallsOf(r, "comments.insert", "", t))
          /\ ProcessedBy(r, t) =>
                /\ Cardinality(CallsOf(r, "comments.insert", "", t)) = 1
                /\ Cardinality(CallsOf(r, "activity_log.insert",
                                       "add_comment", t)) = 1
          /\ \A k \in CallsOf(r, "activity_log.insert", "add_comment", t) :
                k > 1 /\ Did(r, k - 1, "comments.insert", t)
    /\ \A t \in 1..Len(tasks) :
          /\ Cardinality({c \in 1..Len(comments) : comments[c].task_id = t})
                = Cardinality(UNION { {<<r, k>> :
                      k \in CallsOf(r, "comments.insert", "", t)} : r \in Runs })
          /\ Cardinality({a \in 1..Len(activity) :
                            /\ activity[a].action = "add_comment"
                            /\ activity[a].entity_id = t})
                = Cardinality(UNION { {<<r, k>> :
                      k \in CallsOf(r, "activity_log.insert", "add_comment", t)}
                      : r \in Runs })

\* One run processed a vague item and an item that already had a subtask
\* made by hand: each has its one comment and its one add_comment entry.
C11_Witness ==
    \E r \in Runs : \E v, t \in 1..Len(tasks) :
        /\ pc[r] = "done"
        /\ ProcessedBy(r, v) /\ ProcessedBy(r, t)
        /\ IsVague(v) /\ ~IsVague(t)
        /\ \E j \in 1..Len(processed[r]) :
              processed[r][j].id = t /\ processed[r][j].skipped_existing
        /\ \A x \in {v, t} :
              /\ Cardinality({c \in 1..Len(comments) :
                                 comments[c].task_id = x}) = 1
              /\ Cardinality({a \in 1..Len(activity) :
                                 /\ activity[a].action = "add_comment"
                                 /\ activity[a].entity_id = x}) = 1

-----------------------------------------------------------------------------
(* C12                                                                     *)

\* The move_status entries of item t.
MoveEntries(t) ==
    {a \in 1..Len(activity) :
        activity[a].action = "move_status" /\ activity[a].entity_id = t}

\* C12: the call after a status update that returned without error is the
\* move_status entry of the same item, whether the update matched one row or
\* none; every such entry that was written is in the log with from = inbox
\* and to = the status the update carried.
C12_MoveLoggedRegardless ==
    /\ \A r \in Runs : \A k \in CallIdx(r) :
          (calls[r][k].op = "tasks.update" /\ calls[r][k].ok
              /\ k < Len(calls[r])) =>
             /\ calls[r][k + 1].op = "activity_log.insert"
             /\ calls[r][k + 1].arg = "move_status"
             /\ calls[r][k + 1].task = calls[r][k].task
    /\ \A t \in 1..Len(tasks) :
          /\ Cardinality(MoveEntries(t)) =
                Cardinality(UNION { {<<r, k>> :
                    k \in CallsOf(r, "activity_log.insert", "move_status", t)}
                    : r \in Runs })
          /\ \A a \in MoveEntries(t) :
                /\ activity[a].data.from = "inbox"
                /\ activity[a].data.to = targetStatus(IsVague(t))
          /\ \A r \in Runs :
                \A k \in CallsOf(r, "activity_log.insert", "move_status", t) :
                   /\ k > 1
                   /\ Did(r, k - 1, "tasks.update", t)
                   /\ calls[r][k - 1].arg = targetStatus(IsVague(t))

\* A run's update matched no row, the board having moved the item to done,
\* and the run's move_status entry for the item is in the log all the same:
\* the item was never triage, the log says inbox -> triage.
C12_Witness ==
    \E r \in Runs : \E t \in 1..Len(tasks) :
        /\ \E k \in CallIdx(r) :
              /\ Did(r, k, "tasks.update", t) /\ calls[r][k].n = 0
              /\ k < Len(calls[r]) /\ calls[r][k + 1].ok
        /\ StatusWrites(t) = {}
        /\ tasks[t].status = "done"
        /\ \E a \in MoveEntries(t) : activity[a].data.to = "triage"

-----------------------------------------------------------------------------
(* C13                                                                     *)

\* Call k of run r, a write that changed the store, is followed in the run
\* by the successful activity entry `action` of the same item.
Audited(r, k, action) ==
    \E j \in CallIdx(r) :
        /\ j > k
        /\ Did(r, j, "activity_log.insert", calls[r][k].task)
        /\ calls[r][j].arg = action

\* C13: when a run has ended, completed or aborted, each subtask batch it
\* inserted has its create_subtasks entry, each comment it inserted its
\* add_comment entry, and each status update that changed a row its
\* move_status entry.
C13_EveryWriteAudited ==
    \A r \in Runs : Ended(r) =>
        \A k \in CallIdx(r) :
            /\ (calls[r][k].op = "subtasks.insert" /\ calls[r][k].ok)
                  => Audited(r, k, "create_subtasks")
            /\ (calls[r][k].op = "comments.insert" /\ calls[r][k].ok)
                  => Audited(r, k, "add_comment")
            /\ (calls[r][k].op = "tasks.update" /\ calls[r][k].ok
                   /\ calls[r][k].n > 0)
                  => Audited(r, k, "move_status")

-----------------------------------------------------------------------------
(* C15                                                                     *)

\* The call the step appends to the history of run r is a write that
\* changes the store.
WritesNow(r) ==
    /\ calls'[r] # calls[r]
    /\ LET c == calls'[r][Len(calls'[r])]
       IN  /\ c.ok
           /\ \/ c.op \in {"subtasks.insert", "comments.insert"}
              \/ c.op = "tasks.update" /\ c.n > 0

\* C15: every subtask insert, comment insert and status update of the job
\* is about an item of the configured owner whose stored status is inbox
\* when the write is made.
C15_WritesOnlyToInbox ==
    [][ \A r \in Runs :
          WritesNow(r) =>
             LET t == calls'[r][Len(calls'[r])].task
             IN  /\ tasks[t].owner_id = OWNER_ID
                 /\ tasks[t].status = "inbox" ]_vars

-----------------------------------------------------------------------------
(* C16                                                                     *)

\* C16: a batch the job inserts for an item with enough information and no
\* subtask has between 3 and 5 rows, each with a definition of done.
C16_ThreeToFive ==
    \A t \in 1..Len(tasks) :
        BatchInserts(t) # {} =>
            /\ \A c \in BatchInserts(t) : calls[c[1]][c[2]].n \in 3..5
            /\ \A k \in 1..Len(AutoRows(t)) :
                  AutoRows(t)[k].definition_of_done # ""

-----------------------------------------------------------------------------
(* C18                                                                     *)

ScenarioATitle == <<"F","i","x"," ","b","u","g"," ","i","n"," ","A","P","I">>

\* C18: a run that completed, the board having done nothing but create
\* items, and that found the item "Fix bug in API" without description and
\* without subtasks, leaves it with exactly three subtasks, the
\* clarification step, the engineering step and the validation step in this
\* order, reports three created, and leaves its status triage.
C18_ScenarioA ==
    \A r \in Runs : \A j \in 1..Len(processed[r]) :
        LET t == processed[r][j].id
        IN  ( /\ pc[r] = "done"
              /\ uiOps = 0
              /\ tasks[t].title = ScenarioATitle
              /\ tasks[t].description = Null
              /\ ~processed[r][j].skipped_existing )
            => /\ processed[r][j].subtasks_created = 3
               /\ processed[r][j].status = "triage"
               /\ [k \in 1..Len(AutoRows(t)) |-> AutoRows(t)[k].title]
                     = << "Aclarar alcance y criterios",
                          "Implementación técnica",
                          "Validación final" >>
               /\ [k \in 1..Len(AutoRows(t)) |->
                       AutoRows(t)[k].metadata.triage_bucket]
                     = <<BucketJarvis, BucketDev, BucketJarvis>>
               /\ ManualCount(t) = 0
               /\ tasks[t].status = "triage"

\* The first run completed without a failure anywhere and processed the
\* item of Scenario A.
C18_Witness ==
    \E j \in 1..Len(processed[1]) :
        LET t == processed[1][j].id
        IN  /\ pc[1] = "done"
            /\ uiOps = 0 /\ failures = 0
            /\ tasks[t].title = ScenarioATitle
            /\ tasks[t].description = Null
            /\ ~processed[1][j].skipped_existing
            /\ Len(AutoRows(t)) = 3
            /\ tasks[t].status = "triage"

-----------------------------------------------------------------------------
(* C17                                                                     *)

SpecializedBuckets == {BucketSkool, BucketOps, BucketDev, BucketResearch}

\* C17: for every item the plan has between 2 and 7 steps, the first the
\* clarification step and the last the validation step; with a specialized
\* bucket there is exactly one step between them, of that bucket and with a
\* definition of done, and with the default bucket none; the rows a run
\* stored for the item are the steps of this plan.
C17_PlanShape ==
    \A t \in 1..Len(tasks) :
        LET plan == buildSubtasks(tasks[t])
            bucket == inferAgentBucket(tasks[t].title, tasks[t].description)
            n == Len(plan)
        IN  /\ n \in 2..7
            /\ plan[1].title = "Aclarar alcance y criterios"
            /\ plan[n].title = "Validación final"
            /\ bucket \in SpecializedBuckets =>
                  /\ n = 3
                  /\ plan[2].bucket = bucket
                  /\ plan[2].definition_of_done # ""
                  /\ plan[2].title \notin {plan[1].title, plan[n].title}
            /\ bucket \notin SpecializedBuckets =>
                  /\ bucket = BucketJarvis
                  /\ n = 2
            /\ AutoRows(t) # <<>> =>
                  [k \in 1..Len(AutoRows(t)) |-> AutoRows(t)[k].title]
                     = [k \in 1..n |-> plan[k].title]

\* A run stored the plan of an item of the research bucket: three rows, the
\* research step between the clarification and the validation.
C17_Witness ==
    \E t \in 1..Len(tasks) :
        /\ inferAgentBucket(tasks[t].title, tasks[t].description)
              = BucketResearch
        /\ Len(AutoRows(t)) = 3
        /\ AutoRows(t)[2].title = "Investigación rápida (3 fuentes)"
        /\ AutoRows(t)[3].title = "Validación final"

-----------------------------------------------------------------------------
(* C19                                                                     *)

\* The title is a filler word, in any case, with nothing but non-word
\* characters before and after it.
FillerPattern(s) ==
    \E w \in FillerWords : \E i \in 0..Len(s) :
        /\ i + Len(w) <= Len(s)
        /\ toLowerCase(SubSeq(s, i + 1, i + Len(w))) = w
        /\ \A k \in 1..i : ~IsWordChar(s[k])
        /\ \A k \in (i + Len(w) + 1)..Len(s) : ~IsWordChar(s[k])

\* The verdict as the specification words it.
VagueBySpec(title, description) ==
    /\ Len(trim(title)) < 8 \/ FillerPattern(trim(title))
    /\ (description = Null \/ trim(description) = <<>>)

\* C19: for every item, description null included, the verdict of needsNico
\* is a boolean, true exactly when the trimmed title is shorter than 8
\* characters or matches the filler pattern and the trimmed description is
\* empty; and the status a run writes for the item follows this verdict.
C19_VaguenessRule ==
    \A t \in 1..Len(tasks) :
        /\ needsNico(tasks[t]) \in BOOLEAN
        /\ needsNico(tasks[t])
              <=> VagueBySpec(tasks[t].title, tasks[t].description)
        /\ \A r \in Runs : \A k \in CallIdx(r) :
              (calls[r][k].op = "tasks.update" /\ calls[r][k].task = t) =>
                 ( calls[r][k].arg = "needs_nico"
                   <=> VagueBySpec(tasks[t].title, tasks[t].description) )

\* A run moved to needs_nico an item whose title is 8 characters or more and
\* a filler word between non-word characters, and whose description is
\* blank but not null.
C19_Witness ==
    \E t \in 1..Len(tasks) :
        /\ tasks[t].status = "needs_nico"
        /\ Len(trim(tasks[t].title)) >= 8
        /\ tasks[t].description # Null
        /\ tasks[t].description # <<>>

-----------------------------------------------------------------------------
(* C20                                                                     *)

\* The rules in their order.
BucketRules ==
    << [words |-> SkoolWords, bucket |-> BucketSkool],
       [words |-> OpsWords, bucket |-> BucketOps],
       [words |-> DevWords, bucket |-> BucketDev],
       [words |-> ResearchWords, bucket |-> BucketResearch] >>

\* The rules with a keyword in the lower-cased text of the item, title and
\* description joined by a line break.
RulesHit(title, description) ==
    LET text == toLowerCase(normalizeText(title) \o <<"\n">> \o
                            normalizeText(description))
    IN  {i \in 1..Len(BucketRules) :
            \E w \in BucketRules[i].words :
               \E at \in 1..Len(text) :
                  /\ at + Len(w) - 1 <= Len(text)
                  /\ \A j \in 1..Len(w) : text[at + j - 1] = w[j]}

\* C20: the bucket of an item is the bucket of the earliest rule that has a
\* keyword in its text, and the default bucket when no rule has one; the
\* bucket-specific row a run stored for the item carries this bucket.
C20_FirstMatchWins ==
    \A t \in 1..Len(tasks) :
        LET hits == RulesHit(tasks[t].title, tasks[t].description)
            first == CHOOSE i \in hits : \A j \in hits : i <= j
            bucket == inferAgentBucket(tasks[t].title, tasks[t].description)
        IN  /\ hits = {} => bucket = BucketJarvis
            /\ hits # {} => bucket = BucketRules[first].bucket
            /\ Len(AutoRows(t)) = 3 =>
                  /\ hits # {}
                  /\ AutoRows(t)[2].metadata.triage_bucket
                        = BucketRules[first].bucket
            /\ Len(AutoRows(t)) = 2 => hits = {}

\* A run stored the plan of an item whose text has keywords of the
\* operations rule and of the engineering rule: the row is of operations.
C20_Witness ==
    \E t \in 1..Len(tasks) :
        /\ {2, 3} \subseteq RulesHit(tasks[t].title, tasks[t].description)
        /\ 1 \notin RulesHit(tasks[t].title, tasks[t].description)
        /\ Len(AutoRows(t)) = 3
        /\ AutoRows(t)[2].metadata.triage_bucket = BucketOps

-----------------------------------------------------------------------------
(* C14                                                                     *)

\* The items of the configured owner that were inbox when the run fetched:
\* with no one else at work, those still inbox and those the run moved.
InboxAtFetch ==
    {i \in 1..Len(tasks) :
        /\ tasks[i].owner_id = OWNER_ID
        /\ tasks[i].status = "inbox" \/ StatusWrites(i) # {}}

\* The run has fetched.
Fetched(r) ==
    \E k \in CallIdx(r) : calls[r][k].op = "tasks.select" /\ calls[r][k].ok

\* C14: the batch of a run has at most 20 rows, all of the configured owner
\* and inbox, in ascending creation order; it holds the oldest inbox items:
\* an inbox item left out is newer than all 20 of the batch and stays inbox
\* with no subtask, comment, activity entry or call about it; and the run's
\* calls and summary rows follow the creation order.
C14_OldestTwentyInOrder ==
    \A r \in Runs : Fetched(r) =>
        LET ids == [k \in 1..Len(batch[r]) |-> batch[r][k].id]
            inBatch == {ids[k] : k \in 1..Len(ids)}
            about == SelectSeq(calls[r], LAMBDA c : c.task # 0)
        IN  /\ Len(ids) <= 20
            /\ \A k \in 1..Len(ids) :
                  /\ batch[r][k].owner_id = OWNER_ID
                  /\ batch[r][k].status = "inbox"
                  /\ tasks[ids[k]].owner_id = OWNER_ID
            /\ \A k \in 1..(Len(ids) - 1) : ids[k] < ids[k + 1]
            /\ inBatch \subseteq InboxAtFetch
            /\ \A i \in InboxAtFetch \ inBatch :
                  /\ Len(ids) = 20
                  /\ \A j \in inBatch : j < i
                  /\ tasks[i].status = "inbox"
                  /\ AutoCount(i) = 0
                  /\ \A c \in 1..Len(comments) : comments[c].task_id # i
                  /\ \A a \in 1..Len(activity) : activity[a].entity_id # i
            /\ \A k \in 1..Len(about) : about[k].task \in inBatch
            /\ \A k \in 1..(Len(about) - 1) : about[k].task <= about[k + 1].task
            /\ \A k \in 1..(Len(processed[r]) - 1) :
                  processed[r][k].id < processed[r][k + 1].id

\* A backlog of 22 inbox items: the run completed, processed the 20 oldest,
\* and items 21 and 22 are still inbox.
C14_Witness ==
    /\ Len(tasks) = 22
    /\ pc[1] = "done"
    /\ Len(processed[1]) = 20
    /\ \A i \in 1..20 : ProcessedBy(1, i) /\ tasks[i].status # "inbox"
    /\ tasks[21].status = "inbox" /\ tasks[22].status = "inbox"

-----------------------------------------------------------------------------
(* C22                                                                     *)

\* Run r completes in this step.
Completes(r) == pc[r] # "done" /\ pc'[r] = "done"

\* C22: when a run completes, its output has one line per item it
\* processed, and the line of an item tells the status the item has in the
\* store now, the number of subtasks the run created for it, and whether
\* the run skipped the decomposition because subtasks existed.
C22_SummaryTellsStoredStatus ==
    [][ \A r \in Runs : Completes(r) =>
          LET out == stdout'[r]
              p == processed'[r]
          IN  /\ Len(p) > 0 => Len(out) = Len(p) + 1
              /\ \A k \in 1..Len(p) :
                    Len(out) > k =>
                       /\ out[k + 1].id = p[k].id
                       /\ out[k + 1].status = tasks'[p[k].id].status
                       /\ out[k + 1].subtasks_created =
                             (IF \E j \in 1..Len(calls'[r]) :
                                    /\ calls'[r][j].op = "subtasks.insert"
                                    /\ calls'[r][j].task = p[k].id
                                    /\ calls'[r][j].ok
                              THEN Len(PlanFor(p[k].id)) ELSE 0)
                       /\ (out[k + 1].extra # "") = p[k].skipped_existing ]_vars

-----------------------------------------------------------------------------
(* C23                                                                     *)

\* C23: a run whose fetch returns no row makes no further call: it ends
\* with the two reads as its only store calls, the store as it was, the
\* zero-items line as its whole output, and exit status 0.
C23_EmptyBacklog ==
    [][ \A r \in Runs :
          ( /\ calls'[r] # calls[r]
            /\ calls'[r][Len(calls'[r])].op = "tasks.select"
            /\ calls'[r][Len(calls'[r])].ok
            /\ calls'[r][Len(calls'[r])].n = 0 )
          => /\ store' = store
             /\ pc'[r] = "done"
             /\ exitCode'[r] = 0
             /\ processed'[r] = <<>>
             /\ Len(stdout'[r]) = 1
             /\ stdout'[r][1].kind = "total"
             /\ stdout'[r][1].count = 0
             /\ \A k \in 1..Len(calls'[r]) :
                   calls'[r][k].op \in {"agents.select", "tasks.select"} ]_vars

\* A run completed over a store whose only inbox item is another user's:
\* nothing processed, nothing written.
C23_Witness ==
    \E r \in Runs :
        /\ pc[r] = "done"
        /\ Len(calls[r]) = 2
        /\ processed[r] = <<>>
        /\ exitCode[r] = 0
        /\ Len(tasks) = 1 /\ tasks[1].owner_id = "otro"
        /\ tasks[1].status = "inbox"
        /\ subtasks = <<>> /\ comments = <<>> /\ activity = <<>>

-----------------------------------------------------------------------------
(* C26                                                                     *)

\* Call c may come right after call b in a run.
MayFollow(b, c) ==
    /\ b.ok
    /\ \/ b.op = "agents.select" /\ c.op = "tasks.select"
       \/ /\ b.op = "tasks.select"
          /\ c.op = "subtasks.select"
       \/ /\ b.op = "subtasks.select" /\ c.task = b.task
          /\ c.op \in {"subtasks.insert", "comments.insert"}
       \/ /\ b.op = "subtasks.insert" /\ c.task = b.task
          /\ c.op = "activity_log.insert" /\ c.arg = "create_subtasks"
       \/ /\ b.op = "activity_log.insert" /\ b.arg = "create_subtasks"
          /\ c.task = b.task /\ c.op = "comments.insert"
       \/ /\ b.op = "comments.insert" /\ c.task = b.task
          /\ c.op = "activity_log.insert" /\ c.arg = "add_comment"
       \/ /\ b.op = "activity_log.insert" /\ b.arg = "add_comment"
          /\ c.task = b.task /\ c.op = "tasks.update"
       \/ /\ b.op = "tasks.update" /\ c.task = b.task
          /\ c.op = "activity_log.insert" /\ c.arg = "move_status"
       \/ /\ b.op = "activity_log.insert" /\ b.arg = "move_status"
          /\ c.task > b.task /\ c.op = "subtasks.select"

\* C26: the store calls of a run come in the fixed order: the two reads,
\* then item after item the existence check, the batch insert with its
\* create_subtasks entry if any, the comment, its add_comment entry, the
\* status update, its move_status entry; the first call about the next item
\* comes after the move_status entry of the item before, and a status update
\* has the item's comment, and its batch insert if the run made one, before
\* it.
C26_FixedOrder ==
    \A r \in Runs :
        /\ calls[r] # <<>> => calls[r][1].op = "agents.select"
        /\ \A k \in 1..(Len(calls[r]) - 1) :
              MayFollow(calls[r][k], calls[r][k + 1])
        /\ \A k \in CallIdx(r) :
              calls[r][k].op = "tasks.update" =>
                 /\ \E j \in 1..(k - 1) :
                       Did(r, j, "comments.insert", calls[r][k].task)
                 /\ \A j \in CallIdx(r) :
                       ( calls[r][j].op = "subtasks.insert"
                         /\ calls[r][j].task = calls[r][k].task )
                       => j < k /\ calls[r][j].ok

\* A run completed over two items, one decomposed and one not.
C26_Witness ==
    \E r \in Runs :
        /\ pc[r] = "done"
        /\ Len(processed[r]) = 2
        /\ processed[r][1].subtasks_created > 0
        /\ processed[r][2].subtasks_created = 0
        /\ Len(calls[r]) = 14

-----------------------------------------------------------------------------
(* C27                                                                     *)

\* Sequence a is the beginning of sequence b.
IsPrefix(a, b) == Len(a) <= Len(b) /\ SubSeq(b, 1, Len(a)) = a

\* C27: a step of the job, the aborting step included, leaves every
\* subtask, comment and activity entry that exists in place and unchanged,
\* adding rows at the end only; it removes no item and changes nothing of
\* an item but its status.
C27_AppendOnly ==
    [][ (calls' # calls \/ pc' # pc) =>
          /\ IsPrefix(subtasks, subtasks')
          /\ IsPrefix(comments, comments')
          /\ IsPrefix(activity, activity')
          /\ Len(tasks') = Len(tasks)
          /\ \A t \in 1..Len(tasks) :
                [tasks'[t] EXCEPT !.status = tasks[t].status] = tasks[t] ]_vars

\* One run aborted after it had inserted subtasks, another completed.
C27_Witness ==
    /\ pc[1] = "aborted" /\ pc[2] = "done"
    /\ \E k \in CallIdx(1) : calls[1][k].op = "subtasks.insert" /\ calls[1][k].ok
    /\ Len(subtasks) > 0 /\ Len(comments) > 0 /\ Len(activity) > 0

-----------------------------------------------------------------------------
(* C28                                                                     *)

\* C28: in the step in which the job moves an item from inbox to triage the
\* item has at least one subtask.
C28_TriageHasSubtasks ==
    [][ \A t \in 1..Len(tasks) :
          ( /\ calls' # calls
            /\ tasks[t].status = "inbox"
            /\ tasks'[t].status = "triage" )
          => /\ t \in WithSubtasks
             /\ AutoCount(t) + ManualCount(t) >= 1 ]_vars

\* The job moved to triage an item whose only subtask was made by hand.
C28_Witness ==
    \E t \in 1..Len(tasks) :
        /\ StatusWrites(t) # {}
        /\ tasks[t].status = "triage"
        /\ AutoCount(t) = 0
        /\ ManualCount(t) = 1

-----------------------------------------------------------------------------
(* C21                                                                     *)

\* The identities of the owner's active agents named `name`, in any case.
AgentIdsNamed(name) ==
    {a.id : a \in {x \in agents :
        /\ x.owner_id = OWNER_ID /\ x.is_active
        /\ toLowerCase(x.name) = toLowerCase(name)}}

\* The assignees the resolution may give a step of bucket b.
AssigneesFor(b) ==
    IF AgentIdsNamed(b) # {} THEN AgentIdsNamed(b)
    ELSE IF AgentIdsNamed(BucketJarvis) # {} THEN AgentIdsNamed(BucketJarvis)
    ELSE {NullId}

AllBuckets ==
    {BucketSkool, BucketOps, BucketDev, BucketResearch, BucketJarvis}

\* C21: with the roster a run read, the assignee of a step of any bucket is
\* the active agent of that name, in any case, or, there being none, the
\* default agent, or, there being none either, null; every stored step has
\* such an assignee.
C21_AssigneeResolution ==
    /\ \A r \in Runs : pc[r] \notin {"idle", "roster", "aborted"} =>
          \A b \in AllBuckets :
             pickId(roster[r], jarvisIdOf(roster[r]), b) \in AssigneesFor(b)
    /\ \A k \in 1..Len(subtasks) :
          IsAuto(subtasks[k]) =>
             subtasks[k].assignee_agent_id
                \in AssigneesFor(subtasks[k].metadata.triage_bucket)

\* A stored step of the operations bucket left unassigned: the agent of
\* that name is inactive, and the only default agent is another owner's.
C21_Witness ==
    \E k \in 1..Len(subtasks) :
        /\ IsAuto(subtasks[k])
        /\ subtasks[k].metadata.triage_bucket = BucketOps
        /\ subtasks[k].assignee_agent_id = NullId
        /\ AgentOps \in agents /\ AgentOtro \in agents

-----------------------------------------------------------------------------
(* C25                                                                     *)

\* C25: every subtask in the store has a definition of done that is not
\* empty: a row of the job carries the text of its plan step, which is not
\* empty, and a row made by hand carries a trimmed text, not empty, as is
\* its title.
C25_DefinitionOfDone ==
    /\ \A k \in 1..Len(subtasks) :
          IF IsAuto(subtasks[k])
          THEN /\ subtasks[k].definition_of_done # ""
               /\ \E j \in 1..Len(PlanFor(subtasks[k].task_id)) :
                     /\ PlanFor(subtasks[k].task_id)[j].title = subtasks[k].title
                     /\ PlanFor(subtasks[k].task_id)[j].definition_of_done
                           = subtasks[k].definition_of_done
          ELSE /\ subtasks[k].definition_of_done # <<>>
               /\ trim(subtasks[k].definition_of_done)
                     = subtasks[k].definition_of_done
               /\ subtasks[k].title # <<>>
    /\ \A t \in 1..Len(tasks) : \A j \in 1..Len(PlanFor(t)) :
          PlanFor(t)[j].definition_of_done # ""

\* The store holds rows of the job and a row made by hand, whose definition
\* of done the form carried between blanks.
C25_Witness ==
    /\ \E k \in 1..Len(subtasks) : IsAuto(subtasks[k])
    /\ \E k \in 1..Len(subtasks) :
          /\ ~IsAuto(subtasks[k])
          /\ subtasks[k].definition_of_done = trim(SubtaskForm.definition_of_done)
          /\ subtasks[k].definition_of_done # SubtaskForm.definition_of_done

-----------------------------------------------------------------------------
(* C24                                                                     *)

\* The environments a run may be started with: each of the four variables
\* set or not.
Envs ==
    [ SUPABASE_URL : {"", "https://db"},
      NEXT_PUBLIC_SUPABASE_URL : {"", "https://public"},
      SUPABASE_SERVICE_ROLE_KEY : {"", "service-key"},
      CENTRO_OWNER_ID : {"", OWNER_ID} ]

\* Two inbox items of the owner, and any environment for each run.
InitEnv ==
    /\ tasks = << [ owner_id |-> OWNER_ID,
                    title |-> <<"D","e","p","l","o","y"," ","f","i","x">>,
                    description |-> Null, status |-> "inbox" ],
                  [ owner_id |-> OWNER_ID,
                    title |-> <<"F","i","x"," ","b","u","g"," ","i","n"," ","A","P","I">>,
                    description |-> Null, status |-> "inbox" ] >>
    /\ agents = AgentTable
    /\ subtasks = <<>>
    /\ comments = <<>>
    /\ activity = <<>>
    /\ pc = [r \in Runs |-> "idle"]
    /\ roster = [r \in Runs |-> <<>>]
    /\ batch = [r \in Runs |-> <<>>]
    /\ idx = [r \in Runs |-> 0]
    /\ alreadyHas = [r \in Runs |-> FALSE]
    /\ createdCount = [r \in Runs |-> 0]
    /\ newStatus = [r \in Runs |-> "triage"]
    /\ processed = [r \in Runs |-> <<>>]
    /\ exitCode = [r \in Runs |-> 0]
    /\ stdout = [r \in Runs |-> <<>>]
    /\ stderr = [r \in Runs |-> <<>>]
    /\ calls = [r \in Runs |-> <<>>]
    /\ uiOps = 0
    /\ failures = 0
    /\ env \in [Runs -> Envs]
    /\ broken = NoBreak
    /\ atStart = [r \in Runs |-> {}]
    /\ atEnd = [r \in Runs |-> [t \in 1..MaxTasks |-> 0]]

NextEnv ==
    \/ \E r \in Runs : StartRun(r)
    \/ \E r \in Runs : RunStep(r)

SpecEnv == InitEnv /\ [][NextEnv]_vars

\* A required input is missing: no store URL under either name, no
\* service credential, or no owner identifier.
MissingInput(e) ==
    \/ e.SUPABASE_URL = "" /\ e.NEXT_PUBLIC_SUPABASE_URL = ""
    \/ e.SUPABASE_SERVICE_ROLE_KEY = ""
    \/ e.CENTRO_OWNER_ID = ""

\* C24: a run started with a required input missing issues no store call,
\* read or write: the step that starts it ends it, with a non-zero exit
\* code and the store as it was.
C24_MissingInputFailsFast ==
    [][\A r \in Runs : MissingInput(env[r]) =>
          /\ calls'[r] = <<>>
          /\ pc'[r] \in {"idle", "crashed"}
          /\ pc[r] = "idle" /\ pc'[r] # "idle" =>
                /\ exitCode'[r] # 0
                /\ stderr'[r] # <<>>
                /\ store' = store]_vars

\* The first run found no service credential and ended with exit code 1;
\* the second, with the store URL under its public name only, handled the
\* two items the first left in the inbox.
C24_Witness ==
    /\ env[1].SUPABASE_SERVICE_ROLE_KEY = ""
    /\ pc[1] = "crashed" /\ exitCode[1] = 1 /\ calls[1] = <<>>
    /\ env[2].SUPABASE_URL = "" /\ ~MissingInput(env[2])
    /\ pc[2] = "done" /\ Len(processed[2]) = 2

-----------------------------------------------------------------------------
(* C29                                                                     *)

\* A backlog as in InitBacklog, a store whose calls all succeed, and
\* nothing but the runs of the job acting on it.
InitDrain ==
    /\ \E n \in 0..MaxBacklog : \E odd \in 0..n : \E kind \in BacklogKinds :
          tasks = [i \in 1..n |-> BacklogRow(i, odd, kind)]
    /\ subtasks = <<>>
    /\ comments = <<>>
    /\ activity = <<>>
    /\ agents = AgentTable
    /\ pc = [r \in Runs |-> "idle"]
    /\ roster = [r \in Runs |-> <<>>]
    /\ batch = [r \in Runs |-> <<>>]
    /\ idx = [r \in Runs |-> 0]
    /\ alreadyHas = [r \in Runs |-> FALSE]
    /\ createdCount = [r \in Runs |-> 0]
    /\ newStatus = [r \in Runs |-> "triage"]
    /\ processed = [r \in Runs |-> <<>>]
    /\ exitCode = [r \in Runs |-> 0]
    /\ stdout = [r \in Runs |-> <<>>]
    /\ stderr = [r \in Runs |-> <<>>]
    /\ calls = [r \in Runs |-> <<>>]
    /\ uiOps = 0
    /\ failures = MaxFailures
    /\ env = [r \in Runs |-> FullEnv]
    /\ broken = NoBreak
    /\ atStart = [r \in Runs |-> {}]
    /\ atEnd = [r \in Runs |-> [t \in 1..MaxTasks |-> 0]]

\* The scheduler starts the job again when the run before has ended.
NextDrain ==
    \/ \E r \in Runs : StartRun(r)
    \/ \E r \in Runs : RunStep(r)

\* A started process runs on, and the scheduler starts the next.
SpecDrain == InitDrain /\ [][NextDrain]_vars /\ WF_vars(NextDrain)

\* The owner's items that were inbox when run r fetched: those inbox now
\* and those run r or a later run has moved.
InboxFoundBy(r) ==
    {i \in 1..Len(tasks) :
        /\ tasks[i].owner_id = OWNER_ID
        /\ \/ tasks[i].status = "inbox"
           \/ \E q \in Runs : q >= r /\ \E k \in CallIdx(q) :
                 Did(q, k, "tasks.update", i) /\ calls[q][k].n > 0}

Triaged(i) == tasks[i].status \in {"triage", "needs_nico"}

\* No item of the owner is left in inbox.
Drained ==
    \A i \in 1..Len(tasks) : tasks[i].owner_id = OWNER_ID => Triaged(i)

\* A run that ended handled min(20, n) of the n inbox items it found, and
\* each of them is out of inbox.
DrainedByRun(r) ==
    LET n == Cardinality(InboxFoundBy(r))
    IN  /\ pc[r] = "done"
        /\ Len(processed[r]) = IF n < BatchLimit THEN n ELSE BatchLimit
        /\ \A j \in 1..Len(processed[r]) : Triaged(processed[r][j].id)

\* C29: with a store that does not fail and nothing else writing, every run
\* ends, having handled min(20, n) of the n inbox items it found and left
\* each of them out of inbox, and from some point on every item of the
\* owner is in triage or needs_nico.
C29_RunsDrainBacklog ==
    /\ [](\A r \in Runs : Ended(r) => DrainedByRun(r))
    /\ \A r \in Runs : <>(pc[r] = "done")
    /\ <>[]Drained

\* A backlog of 22 inbox items: the first run handled 20, the second the
\* other two, and none is left in inbox.
C29_Witness ==
    /\ Len(tasks) = 22
    /\ \A i \in 1..Len(tasks) : tasks[i].owner_id = OWNER_ID
    /\ pc[1] = "done" /\ Len(processed[1]) = BatchLimit
    /\ pc[2] = "done" /\ Len(processed[2]) = 2
    /\ Drained

-----------------------------------------------------------------------------
(* C30                                                                     *)

\* The store calls of the loop body, named by the place of the run.
ItemOps == {"check", "insert", "logCreate", "comment", "logComment",
            "update", "logMove"}

\* Three inbox items of the owner, the oldest with enough information or
\* without; one store call of the loop body returns an error whenever it is
\* issued for the oldest, a call the first run does issue; every other call
\* succeeds.
InitBlocked ==
    /\ \E f \in {FormFix, FormAyuda} :
          /\ tasks = << [ owner_id |-> OWNER_ID, title |-> trim(f.title),
                          description |-> Null, status |-> "inbox" ],
                        [ owner_id |-> OWNER_ID,
                          title |-> <<"D","e","p","l","o","y"," ","f","i","x">>,
                          description |-> Null, status |-> "inbox" ],
                        [ owner_id |-> OWNER_ID, title |-> trim(FormAyuda.title),
                          description |-> Null, status |-> "inbox" ] >>
          /\ \E op \in ItemOps :
                /\ f = FormAyuda => op \notin {"insert", "logCreate"}
                /\ broken = [op |-> op, task |-> 1]
    /\ agents = AgentTable
    /\ subtasks = <<>>
    /\ comments = <<>>
    /\ activity = <<>>
    /\ pc = [r \in Runs |-> "idle"]
    /\ roster = [r \in Runs |-> <<>>]
    /\ batch = [r \in Runs |-> <<>>]
    /\ idx = [r \in Runs |-> 0]
    /\ alreadyHas = [r \in Runs |-> FALSE]
    /\ createdCount = [r \in Runs |-> 0]
    /\ newStatus = [r \in Runs |-> "triage"]
    /\ processed = [r \in Runs |-> <<>>]
    /\ exitCode = [r \in Runs |-> 0]
    /\ stdout = [r \in Runs |-> <<>>]
    /\ stderr = [r \in Runs |-> <<>>]
    /\ calls = [r \in Runs |-> <<>>]
    /\ uiOps = 0
    /\ failures = MaxFailures
    /\ env = [r \in Runs |-> FullEnv]
    /\ atStart = [r \in Runs |-> {}]
    /\ atEnd = [r \in Runs |-> [t \in 1..MaxTasks |-> 0]]

NextBlocked ==
    \/ \E r \in Runs : StartRun(r)
    \/ \E r \in Runs : RunStep(r)

SpecBlocked == InitBlocked /\ [][NextBlocked]_vars

\* Run r ended in main().catch on a call about item t.
AbortedAt(r, t) ==
    /\ pc[r] = "aborted"
    /\ calls[r] # <<>>
    /\ ~LastCall(r).ok
    /\ LastCall(r).task = t

\* The items newer than t are as the board left them: in inbox, with no
\* store call of any run about them.
NewerUntouched(t) ==
    \A i \in (t + 1)..Len(tasks) :
        /\ tasks[i].status = "inbox"
        /\ \A r \in Runs : \A k \in CallIdx(r) : calls[r][k].task # i

\* Every run that ended was aborted at item t, which is in inbox, and no
\* newer item was handled.
Blocks(t) ==
    /\ \A r \in Runs : Ended(r) => AbortedAt(r, t)
    /\ tasks[t].status = "inbox"
    /\ NewerUntouched(t)

Recurring == {"check", "insert", "comment", "logComment", "update"}

-----------------------------------------------------------------------------
(* C31                                                                     *)

\* The successful status writes of run r for item t that matched n rows.
UpdatesOf(r, t, n) ==
    {k \in CallIdx(r) : Did(r, k, "tasks.update", t) /\ calls[r][k].n = n}

\* The store calls `op` of run r about item t that succeeded.
DoneBy(r, t, op) == {k \in CallIdx(r) : Did(r, k, op, t)}

\* C31: when two overlapping runs have both handled the same item, and no
\* third run has written its status, each of the two issued one status
\* write for it, the write of one changed the row and the write of the
\* other matched no row; the item has the status its text calls for, as
\* after a single run; and each of the two inserted its own comment and its
\* own move_status entry, all of which the store holds.
C31_OneWriteWinsBothLog ==
    \A t \in 1..Len(tasks) : \A r1 \in Runs : \A r2 \in Runs \ {r1} :
        /\ ProcessedBy(r1, t) /\ ProcessedBy(r2, t)
        /\ \A q \in Runs \ {r1, r2} : DoneBy(q, t, "tasks.update") = {}
        =>
        /\ \E w \in {r1, r2} : \E l \in {r1, r2} \ {w} :
              /\ Cardinality(UpdatesOf(w, t, 1)) = 1
              /\ UpdatesOf(w, t, 0) = {}
              /\ Cardinality(UpdatesOf(l, t, 0)) = 1
              /\ UpdatesOf(l, t, 1) = {}
        /\ tasks[t].status = targetStatus(IsVague(t))
        /\ \A r \in {r1, r2} :
              /\ Cardinality(DoneBy(r, t, "comments.insert")) = 1
              /\ Cardinality({k \in DoneBy(r, t, "activity_log.insert") :
                                 calls[r][k].arg = "move_status"}) = 1
        /\ Cardinality({c \in 1..Len(comments) : comments[c].task_id = t})
              = Cardinality(UNION {{<<r, k>> : k \in DoneBy(r, t, "comments.insert")} :
                                      r \in Runs})
        /\ Cardinality({a \in 1..Len(activity) :
              /\ activity[a].entity_id = t
              /\ activity[a].action = "move_status"
              /\ activity[a].data.to = targetStatus(IsVague(t))})
              = Cardinality(UNION {{<<r, k>> :
                        k \in {j \in DoneBy(r, t, "activity_log.insert") :
                                  calls[r][j].arg = "move_status"}} : r \in Runs})

\* Both runs fetched the item before either wrote its status: the second
\* run's write matched no row, and both runs went on to the end.
C31_Witness ==
    \E t \in 1..Len(tasks) :
        /\ ProcessedBy(1, t) /\ ProcessedBy(2, t)
        /\ pc[1] = "done" /\ pc[2] = "done"
        /\ UpdatesOf(1, t, 1) # {} /\ UpdatesOf(2, t, 0) # {}
        /\ tasks[t].status = "needs_nico"
        /\ Cardinality({c \in 1..Len(comments) : comments[c].task_id = t}) = 2

====
